---- MODULE Spec2Model ----
(***************************************************************************)
(* ByteWeaver: Patch / Detour modifications and the MemoryManager registry *)
(* (variant-based generation: MemoryModification, Patch, Detour,           *)
(* MemoryManager::Mods).                                                    *)
(*                                                                         *)
(* Addresses are scaled down: the process image is one page holding the    *)
(* bytes of MemAddrs, pointer arithmetic wraps at PtrMod.  Keys are 1..MaxKeys in  *)
(* std::map (ascending) order; key 0 stands for the empty string / "no     *)
(* key".  Object ids 1..Len(objs) stand for the shared_ptr targets; 0 is   *)
(* nullptr.                                                                *)
(***************************************************************************)
EXTENDS Integers, Sequences, FiniteSets, TLC

VARIABLES
    mem,      \* process memory: address -> byte
    prot,     \* page protection of the modelled page
    objs,     \* every MemoryModification object constructed so far
    Mods,     \* MemoryManager::Mods : key -> object id (0 = no entry)
    applied,  \* history: per object, "an Apply() returned true and no Restore() returned true since"
    last,     \* history: the last call, its arguments, result and the Apply()/Restore() calls it made
    thr,      \* per thread: the operation in progress, its position and its locals
    lock,     \* MemoryManager::ModsMutex : shared holders and exclusive holder
    clog,     \* history: what the last step of a thread did, and the locks it held meanwhile
    ent,      \* an AddressEntry object owned by the caller
    db,       \* AddressDB::_Database : key -> AddressEntry (and the allocation counter)
    dbLock,   \* AddressDB::_Mutex : shared holders and exclusive holder
    image,    \* the loaded module: base address, export and signature offsets
    dlast,    \* history: the last AddressEntry / AddressDB call and the lookups it made
    slast,    \* history: the last AddressScanner call, its arguments and its outcome
    txn,      \* the Detour call in progress and the hook provider's pending transaction
    sym       \* SymbolLoader::SymRefCount and SymLoaded, and the last SymbolLoader call

\* the state of threads, locks and the address subsystem
aux == <<thr, lock, clog, ent, db, dbLock, image, dlast, slast, txn, sym>>

vars == <<mem, prot, objs, Mods, applied, last, aux>>

\* ------------------------------------------------------------------ bounds
MaxMods == 2
MaxKeys == 2
MaxFaultAt == 1
MaxAllocs == 3
MaxTokens == 3
MaxRegion == 4
MaxPattern == 3
MaxRefs == 3

\* ------------------------------------------------------------------ domains
\* uintptr_t arithmetic wraps at PtrMod (scaled: 4-bit pointers)
PtrMod == 2 ^ 4
MemAddrs == 4..11
Keys == 1..MaxKeys
GroupIDs == {0, 1}
ModTypes == {"Patch", "Detour"}
ProtSet == {"RX", "RWX"}

\* Patch constructor arguments tried: <<patchAddress, patchBytes>>
PatchArgs == {<<0, <<1>>>>, <<4, <<1, 1>>>>, <<5, <<2>>>>}
\* Detour constructor arguments tried: <<targetAddress, originalFunction # nullptr>>
DetourArgs == {<<6, TRUE>>}

\* What the OS and the hook provider do during one Apply() or Restore() call.
\*   vp       the first VirtualProtect is granted
\*   garbage  what the uninitialised oldProtection holds when it was refused
\*            ("none": no valid protection value, the second VirtualProtect fails)
\*   fault    "read": access violation after `at` bytes of the snapshot memcpy;
\*            "write": after `at` bytes of the memcpy to the target (for a
\*            Detour: inside the provider calls)
\*   commit   DetourTransactionCommitEx returns NO_ERROR
\*   vq       VirtualQuery succeeds and reports an executable page
OkEnv == [vp |-> TRUE, garbage |-> "none", fault |-> "none", at |-> 0,
          commit |-> TRUE, vq |-> TRUE]

Env ==
    {OkEnv}
    \cup {[OkEnv EXCEPT !.vp = FALSE, !.garbage = g] : g \in ProtSet \cup {"none"}}
    \cup {[OkEnv EXCEPT !.fault = "read"]}
    \cup {[OkEnv EXCEPT !.fault = "write", !.at = n] : n \in 0..MaxFaultAt}
    \cup {[OkEnv EXCEPT !.commit = FALSE], [OkEnv EXCEPT !.vq = FALSE]}

\* The two outcomes tried for the calls made through the registry: everything
\* is granted, or the OS refuses the protection change and the provider the commit.
Refused == [OkEnv EXCEPT !.vp = FALSE, !.commit = FALSE]
RegEnv == {OkEnv, Refused}

\* ------------------------------------------------------------------ memory
ReadBytes(m, addr, n) == [i \in 1..n |-> m[addr + i - 1]]

\* memcpy of the first n bytes of `bytes` to addr
WriteBytes(m, addr, bytes, n) ==
    [a \in DOMAIN m |-> IF a >= addr /\ a < addr + n THEN bytes[a - addr + 1] ELSE m[a]]

\* memcpy into a buffer: the first n bytes of buf are replaced by those of src
CopyInto(buf, src, n) == [i \in 1..Len(buf) |-> IF i <= n THEN src[i] ELSE buf[i]]

Zeros(n) == [i \in 1..n |-> 0]

\* ------------------------------------------------------------------ construction
\* Length of the instruction at p (DetourCopyInstruction's pNext - bytePointer)
InstrLen(p) == IF p % 2 = 0 THEN 2 ELSE 1

DETOUR_MIN_SIZE == 5

RECURSIVE GetDetourSizeFrom(_, _)
GetDetourSizeFrom(bytePointer, nBytes) ==
    IF nBytes < DETOUR_MIN_SIZE
    THEN GetDetourSizeFrom(bytePointer + InstrLen(bytePointer), nBytes + InstrLen(bytePointer))
    ELSE nBytes

GetDetourSize(funcPointer) == GetDetourSizeFrom(funcPointer, 0)

\* Patch::Patch
NewPatchObj(patchAddress, patchBytes) ==
    [Type |-> "Patch", IsModified |-> FALSE, TargetAddress |-> patchAddress,
     Size |-> Len(patchBytes), OriginalBytes |-> Zeros(Len(patchBytes)),
     PatchBytes |-> patchBytes, Key |-> 0, GroupID |-> 0,
     OriginalFunction |-> FALSE, DetourFunction |-> FALSE, Trampoline |-> <<>>]

\* Detour::Detour (OriginalFunction / DetourFunction: TRUE = non-null;
\* Trampoline: the original bytes the hook provider keeps for the detach)
NewDetourObj(targetAddress, originalFunction, detourFunction) ==
    [Type |-> "Detour", IsModified |-> FALSE, TargetAddress |-> targetAddress,
     Size |-> GetDetourSize(targetAddress),
     OriginalBytes |-> Zeros(GetDetourSize(targetAddress)),
     PatchBytes |-> <<>>, Key |-> 0, GroupID |-> 0,
     OriginalFunction |-> originalFunction, DetourFunction |-> detourFunction,
     Trampoline |-> <<>>]

\* ------------------------------------------------------------------ Patch
\* Every Apply/Restore operator maps (object, memory, protection, environment)
\* to the object, memory and protection after the call and the value returned.
Result(o, m, p, r) == [obj |-> o, mem |-> m, prot |-> p, ret |-> r]

Faults(e, kind, size) == e.fault = kind /\ e.at < size

\* PatchApply with the snapshot taken after the patch is written
PatchApplySnapshotLate(o, m, p, e) ==
    IF o.IsModified THEN Result(o, m, p, TRUE)
    ELSE IF o.TargetAddress = 0 \/ ~e.vp THEN Result(o, m, p, FALSE)
    ELSE IF e.fault # "none" THEN Result(o, m, "RWX", FALSE)
    ELSE Result([o EXCEPT !.IsModified = TRUE, !.OriginalBytes = o.PatchBytes],
                WriteBytes(m, o.TargetAddress, o.PatchBytes, o.Size), p, TRUE)

\* PatchApply without the "already modified" early return
PatchApplyNoGuard(o, m, p, e) ==
    IF o.TargetAddress = 0 \/ ~e.vp THEN Result(o, m, p, FALSE)
    ELSE IF e.fault # "none" THEN Result(o, m, "RWX", FALSE)
    ELSE Result([o EXCEPT !.IsModified = TRUE,
                          !.OriginalBytes = ReadBytes(m, o.TargetAddress, o.Size)],
                WriteBytes(m, o.TargetAddress, o.PatchBytes, o.Size), p, TRUE)

\* PatchApply going on to the snapshot after VirtualProtect was refused
PatchApplyPastRefusal(o, m, p, e) ==
    IF o.IsModified THEN Result(o, m, p, TRUE)
    ELSE IF o.TargetAddress = 0 THEN Result(o, m, p, FALSE)
    ELSE IF ~e.vp
    THEN Result([o EXCEPT !.OriginalBytes = ReadBytes(m, o.TargetAddress, o.Size)],
                m, p, FALSE)
    ELSE IF e.fault # "none" THEN Result(o, m, "RWX", FALSE)
    ELSE Result([o EXCEPT !.IsModified = TRUE,
                          !.OriginalBytes = ReadBytes(m, o.TargetAddress, o.Size)],
                WriteBytes(m, o.TargetAddress, o.PatchBytes, o.Size), p, TRUE)

PatchApply(o, m, p, e) ==
    IF o.IsModified THEN Result(o, m, p, TRUE)
    ELSE IF o.TargetAddress = 0 THEN Result(o, m, p, FALSE)
    ELSE IF ~e.vp THEN Result(o, m, p, FALSE)
    ELSE IF Faults(e, "read", o.Size)
    THEN Result([o EXCEPT !.OriginalBytes =
                     CopyInto(@, ReadBytes(m, o.TargetAddress, o.Size), e.at)],
                m, "RWX", FALSE)
    ELSE LET saved == [o EXCEPT !.OriginalBytes = ReadBytes(m, o.TargetAddress, o.Size)] IN
         IF Faults(e, "write", o.Size)
         THEN Result(saved, WriteBytes(m, o.TargetAddress, o.PatchBytes, e.at), "RWX", FALSE)
         ELSE Result([saved EXCEPT !.IsModified = TRUE],
                     WriteBytes(m, o.TargetAddress, o.PatchBytes, o.Size), p, TRUE)

PatchRestore(o, m, p, e) ==
    IF ~o.IsModified THEN Result(o, m, p, TRUE)
    ELSE LET vpOk == e.vp
             \* protection while the copy runs: the refusal is logged, not returned
             during == IF vpOk THEN "RWX" ELSE p
             \* oldProtection is uninitialised when VirtualProtect was refused
             oldProtection == IF vpOk THEN p ELSE e.garbage
             after == IF oldProtection = "none" THEN during ELSE oldProtection
         IN  IF during # "RWX"
             THEN Result(o, m, during, FALSE)
             ELSE IF Faults(e, "write", o.Size)
             THEN Result(o, WriteBytes(m, o.TargetAddress, o.OriginalBytes, e.at), during, FALSE)
             ELSE Result([o EXCEPT !.IsModified = FALSE],
                         WriteBytes(m, o.TargetAddress, o.OriginalBytes, o.Size), after, TRUE)

\* ------------------------------------------------------------------ Detour
\* What a committed DetourAttach leaves at the target: a jmp and int3 filler
HookBytes(n) == [i \in 1..n |-> IF i = 1 THEN 233 ELSE 204]

DetourApply(o, m, p, e) ==
    IF o.IsModified THEN Result(o, m, p, TRUE)
    ELSE IF ~o.OriginalFunction \/ ~o.DetourFunction \/ o.TargetAddress = 0
    THEN Result(o, m, p, FALSE)
    ELSE IF ~e.vq THEN Result(o, m, p, FALSE)
    ELSE IF Faults(e, "read", o.Size)
    THEN Result([o EXCEPT !.OriginalBytes =
                     CopyInto(Zeros(o.Size), ReadBytes(m, o.TargetAddress, o.Size), e.at)],
                m, p, FALSE)
    ELSE LET saved == [o EXCEPT !.OriginalBytes = ReadBytes(m, o.TargetAddress, o.Size)] IN
         IF ~e.commit \/ e.fault = "write"
         THEN Result(saved, m, p, FALSE)
         ELSE Result([saved EXCEPT !.IsModified = TRUE,
                                   !.Trampoline = ReadBytes(m, o.TargetAddress, o.Size)],
                     WriteBytes(m, o.TargetAddress, HookBytes(o.Size), o.Size), p, TRUE)

DetourRestore(o, m, p, e) ==
    IF ~o.IsModified THEN Result(o, m, p, TRUE)
    ELSE IF ~o.OriginalFunction \/ ~o.DetourFunction
    THEN Result([o EXCEPT !.IsModified = FALSE], m, p, FALSE)
    ELSE IF ~e.commit \/ e.fault # "none"
    THEN Result(o, m, p, FALSE)
    ELSE Result([o EXCEPT !.IsModified = FALSE, !.Trampoline = <<>>],
                WriteBytes(m, o.TargetAddress, o.Trampoline, o.Size), p, TRUE)

\* virtual dispatch of MemoryModification::Apply / Restore
ModApply(o, m, p, e) ==
    IF o.Type = "Patch" THEN PatchApply(o, m, p, e) ELSE DetourApply(o, m, p, e)

ModRestore(o, m, p, e) ==
    IF o.Type = "Patch" THEN PatchRestore(o, m, p, e) ELSE DetourRestore(o, m, p, e)

\* ------------------------------------------------------------------ calls
\* The state one Apply()/Restore() call works on, plus the log of the calls made.
Cur == [objs |-> objs, mem |-> mem, prot |-> prot, applied |-> applied, called |-> <<>>]

\* hMod->Apply() / hMod->Restore() on object id; the call and its result are logged
Invoke(st, id, isApply, e) ==
    LET r == IF isApply THEN ModApply(st.objs[id], st.mem, st.prot, e)
                        ELSE ModRestore(st.objs[id], st.mem, st.prot, e)
    IN  [objs |-> [st.objs EXCEPT ![id] = r.obj],
         mem |-> r.mem,
         prot |-> r.prot,
         applied |-> [st.applied EXCEPT ![id] = IF r.ret THEN isApply ELSE @],
         called |-> Append(st.called, <<id, r.ret>>)]

Commit(st) ==
    /\ objs' = st.objs
    /\ mem' = st.mem
    /\ prot' = st.prot
    /\ applied' = st.applied

NoSel == [by |-> "none", group |-> 0, type |-> "Unspecified"]

NoCall ==
    [op |-> "Init", key |-> 0, obj |-> 0, prev |-> 0, sel |-> NoSel, ret |-> FALSE,
     called |-> <<>>, was |-> FALSE, pre |-> <<>>, apply |-> <<>>, addr |-> 0, len |-> 0, keysIn |-> <<>>, keysOut |-> <<>>]

Call(op, key, obj, ret, called) ==
    [NoCall EXCEPT !.op = op, !.key = key, !.obj = obj, !.ret = ret, !.called = called]

\* the bytes of an object's target range (nothing for a null target)
TargetBytes(o, m) ==
    IF o.TargetAddress = 0 THEN <<>> ELSE ReadBytes(m, o.TargetAddress, o.Size)

ObjIds == 1..Len(objs)

\* ------------------------------------------------------------------ objects
NewPatch(a) ==
    /\ Len(objs) < MaxMods
    /\ objs' = Append(objs, NewPatchObj(a[1], a[2]))
    /\ applied' = Append(applied, FALSE)
    /\ last' = Call("NewPatch", 0, Len(objs) + 1, TRUE, <<>>)
    /\ UNCHANGED <<mem, prot, Mods, aux>>

NewDetour(a) ==
    /\ Len(objs) < MaxMods
    /\ objs' = Append(objs, NewDetourObj(a[1], a[2], TRUE))
    /\ applied' = Append(applied, FALSE)
    /\ last' = Call("NewDetour", 0, Len(objs) + 1, TRUE, <<>>)
    /\ UNCHANGED <<mem, prot, Mods, aux>>

\* a caller's write to the public member Detour::OriginalFunction
WriteOriginalFunction(id, ptr) ==
    /\ objs[id].Type = "Detour"
    /\ objs[id].OriginalFunction # ptr
    /\ objs' = [objs EXCEPT ![id].OriginalFunction = ptr]
    /\ last' = Call("WriteOriginalFunction", 0, id, TRUE, <<>>)
    /\ UNCHANGED <<mem, prot, Mods, applied, aux>>

\* history: when the call just before was Apply() on the same object, what it
\* returned, whether the object was modified before it, and the target bytes before it
ApplyJustBefore(id) ==
    IF last.op = "Apply" /\ last.obj = id THEN <<last.ret, last.was, last.pre>> ELSE <<>>

\* a caller's direct mod->Apply() / mod->Restore()
Apply(id, e) ==
    LET st == Invoke(Cur, id, TRUE, e) IN
    /\ Commit(st)
    /\ last' = [Call("Apply", 0, id, st.called[1][2], st.called)
                    EXCEPT !.was = objs[id].IsModified, !.pre = TargetBytes(objs[id], mem)]
    /\ UNCHANGED <<Mods, aux>>

Restore(id, e) ==
    LET st == Invoke(Cur, id, FALSE, e) IN
    /\ Commit(st)
    /\ last' = [Call("Restore", 0, id, st.called[1][2], st.called)
                    EXCEPT !.was = objs[id].IsModified, !.pre = TargetBytes(objs[id], mem),
                           !.apply = ApplyJustBefore(id)]
    /\ UNCHANGED <<Mods, aux>>

\* ------------------------------------------------------------------ hook transactions
\* Detour::Apply / Detour::Restore step by step.
\*   pc       "idle", "try" (DetourTransactionBegin done, __try block next),
\*            "abort" (DetourTransactionAbort next), "return"
\*   pending  the hook provider has a transaction pending
\*   opened   the call has opened a transaction; closedBy: how it was closed
\*   was, pre is_modified and the target bytes when the call was entered
NoTxn ==
    [pc |-> "idle", id |-> 0, isApply |-> FALSE, env |-> OkEnv, pending |-> FALSE,
     opened |-> FALSE, closedBy |-> "none", ret |-> FALSE, was |-> FALSE, pre |-> <<>>]

\* the checks before DetourTransactionBegin pass
OpensTransaction(o, isApply, e) ==
    IF isApply
    THEN ~o.IsModified /\ o.OriginalFunction /\ o.DetourFunction /\ o.TargetAddress # 0 /\ e.vq
    ELSE o.IsModified /\ o.OriginalFunction /\ o.DetourFunction

\* where control goes after the __try block whatever its outcome: straight out
AfterTryReturning(ret) == "return"

\* where control goes after the __try block: `return true` inside it on success,
\* else past the handlers to DetourTransactionAbort
AfterTry(ret) == IF ret THEN "return" ELSE "abort"

\* the call is entered: it returns from its checks or opens a transaction
DetourEnter(id, isApply, e) ==
    LET o == objs[id]
        entered == [NoTxn EXCEPT !.id = id, !.isApply = isApply, !.env = e,
                                 !.was = o.IsModified, !.pre = TargetBytes(o, mem)]
    IN  /\ txn.pc = "idle"
        /\ o.Type = "Detour"
        /\ IF OpensTransaction(o, isApply, e)
           THEN /\ txn' = [entered EXCEPT !.pc = "try", !.pending = TRUE, !.opened = TRUE]
                /\ UNCHANGED <<mem, prot, objs, applied>>
           ELSE LET st == Invoke(Cur, id, isApply, e) IN
                /\ Commit(st)
                /\ txn' = [entered EXCEPT !.pc = "return", !.ret = st.called[1][2]]
        /\ UNCHANGED <<Mods, last, thr, lock, clog, ent, db, dbLock, image, dlast, slast, sym>>

\* the __try block: snapshot, attach or detach, DetourTransactionCommitEx.  A commit
\* that succeeds closes the transaction; whether one that fails leaves it pending
\* is the provider's business
DetourTry ==
    LET st == Invoke(Cur, txn.id, txn.isApply, txn.env)
        ret == st.called[1][2]
        faulted == txn.env.fault # "none"
    IN  /\ txn.pc = "try"
        /\ Commit(st)
        /\ \E left \in BOOLEAN :
              /\ left = (IF ret THEN FALSE ELSE IF faulted THEN TRUE ELSE left)
              /\ txn' = [txn EXCEPT !.pc = AfterTry(ret), !.ret = ret, !.pending = left,
                                    !.closedBy = IF ret THEN "commit"
                                                 ELSE IF left THEN "none" ELSE "abort"]
        /\ UNCHANGED <<Mods, last, thr, lock, clog, ent, db, dbLock, image, dlast, slast, sym>>

\* DetourTransactionAbort(); return false
DetourAbort ==
    /\ txn.pc = "abort"
    /\ txn' = [txn EXCEPT !.pc = "return", !.ret = FALSE, !.pending = FALSE,
                          !.closedBy = "abort"]
    /\ UNCHANGED <<mem, prot, objs, Mods, applied, last>>
    /\ UNCHANGED <<thr, lock, clog, ent, db, dbLock, image, dlast, slast, sym>>

\* the call returns to its caller
DetourReturn ==
    /\ txn.pc = "return"
    /\ last' = [Call(IF txn.isApply THEN "Apply" ELSE "Restore", 0, txn.id, txn.ret,
                     <<<<txn.id, txn.ret>>>>)
                    EXCEPT !.was = txn.was, !.pre = txn.pre,
                           !.apply = IF txn.isApply THEN <<>> ELSE ApplyJustBefore(txn.id)]
    /\ txn' = [NoTxn EXCEPT !.pending = txn.pending]
    /\ UNCHANGED <<mem, prot, objs, Mods, applied>>
    /\ UNCHANGED <<thr, lock, clog, ent, db, dbLock, image, dlast, slast, sym>>

\* ------------------------------------------------------------------ registry
ModExists(key) == Mods[key] # 0

\* history: the key holds a Modification that is modified
HoldsActive(key) == ModExists(key) /\ objs[Mods[key]].IsModified

\* AddMod as the first-generation AddPatch/AddDetour did it: the occupant of the
\* key is restored and erased, then the new Modification takes the slot
AddModReplacing(key, id, groupID) ==
    LET st == IF ModExists(key) THEN Invoke(Cur, Mods[key], FALSE, OkEnv) ELSE Cur IN
    /\ objs' = [st.objs EXCEPT ![id].Key = key, ![id].GroupID = groupID]
    /\ mem' = st.mem
    /\ prot' = st.prot
    /\ applied' = st.applied
    /\ Mods' = [Mods EXCEPT ![key] = id]
    /\ last' = [Call("AddMod", key, id, TRUE, st.called)
                    EXCEPT !.prev = Mods[key], !.was = HoldsActive(key)]
    /\ UNCHANGED aux

AddMod(key, id, groupID) ==
    /\ IF ~ModExists(key)
       THEN /\ objs' = [objs EXCEPT ![id].Key = key, ![id].GroupID = groupID]
            /\ Mods' = [Mods EXCEPT ![key] = id]
       ELSE UNCHANGED <<objs, Mods>>
    /\ last' = [Call("AddMod", key, id, ~ModExists(key), <<>>)
                    EXCEPT !.prev = Mods[key], !.was = HoldsActive(key)]
    /\ UNCHANGED <<mem, prot, applied, aux>>

\* EraseMod that restores the Modification it removes
EraseModRestoring(key) ==
    LET st == IF ModExists(key) THEN Invoke(Cur, Mods[key], FALSE, OkEnv) ELSE Cur IN
    /\ Commit(st)
    /\ Mods' = [Mods EXCEPT ![key] = 0]
    /\ last' = [Call("EraseMod", key, Mods[key], ModExists(key), st.called)
                    EXCEPT !.prev = Mods[key], !.was = HoldsActive(key)]
    /\ UNCHANGED aux

EraseMod(key) ==
    /\ Mods' = [Mods EXCEPT ![key] = 0]
    /\ last' = [Call("EraseMod", key, Mods[key], ModExists(key), <<>>)
                    EXCEPT !.prev = Mods[key], !.was = HoldsActive(key)]
    /\ UNCHANGED <<mem, prot, objs, applied, aux>>

\* ApplyMod / RestoreMod: the call is made when the key exists; the value
\* returned is the literal at the end of the function
\* KeyedCall making the opposite call
KeyedCallOpposite(key, isApply, e) ==
    IF ModExists(key) THEN Invoke(Cur, Mods[key], ~isApply, e) ELSE Cur

KeyedCall(key, isApply, e) ==
    IF ModExists(key) THEN Invoke(Cur, Mods[key], isApply, e) ELSE Cur

ApplyModRet(key, st) == FALSE

RestoreModRet(key, st) == FALSE

ApplyMod(key, e) ==
    LET st == KeyedCall(key, TRUE, e) IN
    /\ Commit(st)
    /\ last' = [Call("ApplyMod", key, Mods[key], ApplyModRet(key, st), st.called)
                    EXCEPT !.prev = Mods[key], !.was = HoldsActive(key)]
    /\ UNCHANGED <<Mods, aux>>

RestoreMod(key, e) ==
    LET st == KeyedCall(key, FALSE, e) IN
    /\ Commit(st)
    /\ last' = [Call("RestoreMod", key, Mods[key], RestoreModRet(key, st), st.called)
                    EXCEPT !.prev = Mods[key], !.was = HoldsActive(key)]
    /\ UNCHANGED <<Mods, aux>>

RestoreAndEraseMod(key, e) ==
    LET st == KeyedCall(key, FALSE, e)
        a == RestoreModRet(key, st)
        b == ModExists(key)
    IN  /\ Commit(st)
        /\ Mods' = [Mods EXCEPT ![key] = 0]
        /\ last' = [Call("RestoreAndEraseMod", key, Mods[key], a /\ b, st.called)
                        EXCEPT !.prev = Mods[key], !.was = HoldsActive(key)]
        /\ UNCHANGED aux

\* ------------------------------------------------------------------ bulk operations
SelAll == [NoSel EXCEPT !.by = "all"]
SelGroup(groupID) == [NoSel EXCEPT !.by = "group", !.group = groupID]
SelType(modType) == [NoSel EXCEPT !.by = "type", !.type = modType]

\* a lambda that lets every entry through
SelectedAlways(o, sel) == TRUE

\* the predicate of the lambda handed to all_of / erase_if
Selected(o, sel) ==
    CASE sel.by = "all" -> TRUE
      [] sel.by = "group" -> o.GroupID = sel.group
      [] sel.by = "type" -> o.Type = sel.type
      [] OTHER -> FALSE

\* std::ranges::all_of(Mods | std::views::values, lambda), from key k on:
\* entries are visited in key order and the first lambda result of false ends the visit
\* AllOf that visits every entry and reports true whatever the calls return
RECURSIVE AllOfIgnoringResults(_, _, _, _, _)
AllOfIgnoringResults(k, st, sel, isApply, env) ==
    IF k > MaxKeys THEN [st |-> st, ret |-> TRUE]
    ELSE IF Mods[k] = 0 \/ ~Selected(st.objs[Mods[k]], sel)
    THEN AllOfIgnoringResults(k + 1, st, sel, isApply, env)
    ELSE AllOfIgnoringResults(k + 1, Invoke(st, Mods[k], isApply, env[k]), sel, isApply, env)

RECURSIVE AllOf(_, _, _, _, _)
AllOf(k, st, sel, isApply, env) ==
    IF k > MaxKeys THEN [st |-> st, ret |-> TRUE]
    ELSE IF Mods[k] = 0 \/ ~Selected(st.objs[Mods[k]], sel)
    THEN AllOf(k + 1, st, sel, isApply, env)
    ELSE LET st2 == Invoke(st, Mods[k], isApply, env[k]) IN
         IF st2.called[Len(st2.called)][2]
         THEN AllOf(k + 1, st2, sel, isApply, env)
         ELSE [st |-> st2, ret |-> FALSE]

\* the bytes of the whole modelled memory, in address order
MemBytes(m) == [i \in 1..Cardinality(MemAddrs) |-> m[4 + i - 1]]

\* history: some registered Modification is modified
AnyActive == \E k \in Keys : HoldsActive(k)

\* history: when the call just before was ApplyAllMods, what it returned, whether a
\* registered Modification was modified before it, and the memory before it
ApplyAllJustBefore ==
    IF last.op = "ApplyAllMods" THEN <<last.ret, last.was, last.pre>> ELSE <<>>

Bulk(op, sel, isApply, env) ==
    LET r == AllOf(1, Cur, sel, isApply, env) IN
    /\ Commit(r.st)
    /\ last' = [Call(op, 0, 0, r.ret, r.st.called)
                    EXCEPT !.sel = sel,
                           !.was = (op = "ApplyAllMods" /\ AnyActive),
                           !.pre = IF op = "ApplyAllMods" THEN MemBytes(mem) ELSE <<>>,
                           !.apply = IF op = "RestoreAllMods" THEN ApplyAllJustBefore ELSE <<>>]
    /\ UNCHANGED <<Mods, aux>>

ApplyAllMods(env) == Bulk("ApplyAllMods", SelAll, TRUE, env)
RestoreAllMods(env) == Bulk("RestoreAllMods", SelAll, FALSE, env)
ApplyByGroupID(groupID, env) == Bulk("ApplyByGroupID", SelGroup(groupID), TRUE, env)
RestoreByGroupID(groupID, env) == Bulk("RestoreByGroupID", SelGroup(groupID), FALSE, env)
ApplyByType(modType, env) == Bulk("ApplyByType", SelType(modType), TRUE, env)
RestoreByType(modType, env) == Bulk("RestoreByType", SelType(modType), FALSE, env)

\* Mods.clear() / std::erase_if(Mods, lambda)
EraseIf(op, sel) ==
    /\ Mods' = [k \in Keys |->
                   IF Mods[k] # 0 /\ Selected(objs[Mods[k]], sel) THEN 0 ELSE Mods[k]]
    /\ last' = [Call(op, 0, 0, TRUE, <<>>) EXCEPT !.sel = sel]
    /\ UNCHANGED <<mem, prot, objs, applied, aux>>

EraseAllMods == EraseIf("EraseAllMods", SelAll)
EraseByGroupID(groupID) == EraseIf("EraseByGroupID", SelGroup(groupID))
EraseByType(modType) == EraseIf("EraseByType", SelType(modType))

\* std::erase_if(Mods, lambda) with a lambda that restores what it selects: every
\* entry is visited in key order, Restore() is called on the selected ones and its
\* result dropped
RECURSIVE RestoreEach(_, _, _, _)
RestoreEach(k, st, sel, env) ==
    IF k > MaxKeys THEN st
    ELSE IF Mods[k] = 0 \/ ~Selected(st.objs[Mods[k]], sel)
    THEN RestoreEach(k + 1, st, sel, env)
    ELSE RestoreEach(k + 1, Invoke(st, Mods[k], FALSE, env[k]), sel, env)

RestoreAndEraseIf(op, sel, env) ==
    LET st == RestoreEach(1, Cur, sel, env) IN
    /\ Commit(st)
    /\ Mods' = [k \in Keys |->
                   IF Mods[k] # 0 /\ Selected(objs[Mods[k]], sel) THEN 0 ELSE Mods[k]]
    /\ last' = [Call(op, 0, 0, TRUE, st.called) EXCEPT !.sel = sel]
    /\ UNCHANGED aux

RestoreAndEraseAllMods(env) == RestoreAndEraseIf("RestoreAndEraseAllMods", SelAll, env)
RestoreAndEraseByGroupID(groupID, env) ==
    RestoreAndEraseIf("RestoreAndEraseByGroupID", SelGroup(groupID), env)
RestoreAndEraseByType(modType, env) ==
    RestoreAndEraseIf("RestoreAndEraseByType", SelType(modType), env)

\* ------------------------------------------------------------------ overlap query
\* the test of one entry in IsLocationModified's loop
\* Reported with the boundaries included
ReportedInclusive(mod, address, endAddress) ==
    /\ mod.IsModified
    /\ LET modEnd == (mod.TargetAddress + mod.Size) % PtrMod IN
       address <= modEnd /\ endAddress >= mod.TargetAddress

Reported(mod, address, endAddress) ==
    /\ mod.IsModified
    /\ LET modEnd == (mod.TargetAddress + mod.Size) % PtrMod IN
       address < modEnd /\ endAddress > mod.TargetAddress

RECURSIVE DetectFrom(_, _, _, _)
DetectFrom(k, address, endAddress, detectedKeys) ==
    IF k > MaxKeys THEN detectedKeys
    ELSE IF Mods[k] # 0 /\ Reported(objs[Mods[k]], address, endAddress)
    THEN DetectFrom(k + 1, address, endAddress, Append(detectedKeys, k))
    ELSE DetectFrom(k + 1, address, endAddress, detectedKeys)

\* <<address, length>> of the queries tried
Queries == {<<5, 4>>, <<2, 4>>, <<6, 2>>, <<5, 0>>, <<10, 2>>, <<14, 4>>}
DetectedKeysIn == {<<>>, <<1>>}

IsLocationModified(address, length, detectedKeys) ==
    LET endAddress == (address + length) % PtrMod
        out == DetectFrom(1, address, endAddress, detectedKeys)
    IN  /\ last' = [Call("IsLocationModified", 0, 0, out # <<>>, <<>>)
                        EXCEPT !.addr = address, !.len = length,
                               !.keysIn = detectedKeys, !.keysOut = out]
        /\ UNCHANGED <<mem, prot, objs, Mods, applied, aux>>

\* ------------------------------------------------------------------ threads and locks
Threads == {1, 2}

\* a std::shared_mutex: the threads holding it shared, the thread holding it exclusively
NoHolder == [readers |-> {}, writer |-> 0]

\* a thread that is in no call
Idle ==
    [pc |-> "idle", op |-> "none", key |-> 0, hMod |-> 0, isApply |-> FALSE,
     sel |-> NoSel, k |-> 0, out |-> <<>>, raced |-> FALSE, addr |-> 0, len |-> 0,
     ptr |-> <<>>, ret |-> TRUE, called |-> <<>>, seen |-> <<>>, oldProtection |-> "RX",
     groupID |-> 0]

\* history: the last step of a thread: what it did and which locks it held
NoStep == [t |-> 0, kind |-> "none", shared |-> FALSE, excl |-> FALSE, raced |-> FALSE]

\* The module the entries name.  base = 0: not loaded; exp = 0: the symbol is not
\* exported; sig = 0: the pattern matches nowhere.  exp and sig are offsets from base.
Images == [base : {0, 16, 32}, exp : {0, 3, 4}, sig : {0, 5}]

Symbols == {1, 2}
ModuleNames == {"", "m"}

\* AddressDB::Key: <<symbol name, module name>>
DbKeys == {<<sn, "m">> : sn \in Symbols}

\* std::optional: <<>> is std::nullopt, <<v>> holds v
Nullopt == <<>>
Some(v) == <<v>>

\* AddressEntry::AddressEntry.  KnownOffset 0 stands for an unset optional (the code
\* reads it through value_or(0) only); HasPattern is _ScanBytes.has_value(); Id is
\* the allocation the Database stores the entry in (0: not in the Database)
AddressEntryNew(symbolName, moduleName) ==
    [SymbolName |-> symbolName, ModuleName |-> moduleName, IsSymbolExport |-> TRUE,
     KnownOffset |-> 0, HasPattern |-> FALSE, ModuleAddress |-> 0, TargetAddress |-> 0,
     Id |-> 0]

NoEntry == AddressEntryNew(0, "")

SetModuleBase(e, moduleAddress) == [e EXCEPT !.ModuleAddress = moduleAddress]
SetKnownAddress(e, targetAddress) == [e EXCEPT !.TargetAddress = targetAddress]
SetKnownOffset(e, offset) == [e EXCEPT !.KnownOffset = offset]
SetScanPattern(e) == [e EXCEPT !.HasPattern = TRUE]

WithKnownAddress(symbolName, moduleName, address) ==
    [SetKnownAddress(AddressEntryNew(symbolName, moduleName), address)
        EXCEPT !.IsSymbolExport = FALSE]

WithKnownOffset(symbolName, moduleName, offset) ==
    [SetKnownOffset(AddressEntryNew(symbolName, moduleName), offset)
        EXCEPT !.IsSymbolExport = FALSE]

WithScanPattern(symbolName, moduleName) ==
    [SetScanPattern(AddressEntryNew(symbolName, moduleName))
        EXCEPT !.IsSymbolExport = FALSE]

\* GetModuleHandleW: 0 when the module is not loaded
GetModuleHandleW(img, moduleName) == IF moduleName = "m" THEN img.base ELSE 0

\* SearchResults: <<>> or <<module base, found address, offset>>
LookupExportAddress(img, moduleName) ==
    LET hMod == GetModuleHandleW(img, moduleName) IN
    IF hMod = 0 \/ img.exp = 0 THEN Nullopt ELSE <<hMod, hMod + img.exp, img.exp>>

ModuleSearch(img, moduleName) ==
    LET hMod == GetModuleHandleW(img, moduleName) IN
    IF hMod = 0 \/ img.sig = 0 THEN Nullopt ELSE <<hMod, hMod + img.sig, img.sig>>

\* what a resolution call leaves: the entry, the value returned and the
\* strategies it ran, in order
Resolved(e, ret, tried) == [entry |-> e, ret |-> ret, tried |-> tried]

\* the caching of a successful export lookup or pattern scan
Cached(e, scan) == SetKnownOffset(SetKnownAddress(SetModuleBase(e, scan[1]), scan[2]), scan[3])

\* Update that goes on to the next strategy when the selected one fails
UpdateFallingThrough(e, img) ==
    LET exp == LookupExportAddress(img, e.ModuleName)
        sig == ModuleSearch(img, e.ModuleName)
    IN  IF e.IsSymbolExport /\ exp # Nullopt
        THEN Resolved(Cached(e, exp), Some(exp[2]), <<"export">>)
        ELSE IF e.HasPattern /\ sig # Nullopt
        THEN Resolved(Cached(e, sig), Some(sig[2]),
                      IF e.IsSymbolExport THEN <<"export", "scan">> ELSE <<"scan">>)
        ELSE Resolved(e, Nullopt,
                      (IF e.IsSymbolExport THEN <<"export">> ELSE <<>>)
                          \o (IF e.HasPattern THEN <<"scan">> ELSE <<>>))

Update(e, img) ==
    IF e.IsSymbolExport
    THEN LET scan == LookupExportAddress(img, e.ModuleName) IN
         IF scan # Nullopt
         THEN Resolved(Cached(e, scan), Some(scan[2]), <<"export">>)
         ELSE Resolved(e, Nullopt, <<"export">>)
    ELSE IF e.HasPattern
    THEN LET scan == ModuleSearch(img, e.ModuleName) IN
         IF scan # Nullopt
         THEN Resolved(Cached(e, scan), Some(scan[2]), <<"scan">>)
         ELSE Resolved(e, Nullopt, <<"scan">>)
    ELSE IF e.ModuleAddress > 0 /\ e.KnownOffset > 0
    THEN Resolved(SetKnownAddress(e, e.ModuleAddress + e.KnownOffset),
                  Some(e.ModuleAddress + e.KnownOffset), <<"base">>)
    ELSE IF e.ModuleName # "" /\ e.KnownOffset > 0
    THEN LET hMod == GetModuleHandleW(img, e.ModuleName) IN
         IF hMod = 0
         THEN Resolved(e, Nullopt, <<"module">>)
         ELSE Resolved(SetKnownAddress(SetModuleBase(e, hMod), hMod + e.KnownOffset),
                       Some(hMod + e.KnownOffset), <<"module">>)
    ELSE Resolved(e, Nullopt, <<>>)

\* the non-const GetAddress
GetAddress(e, img) ==
    IF e.TargetAddress > 0 THEN Resolved(e, Some(e.TargetAddress), <<>>)
    ELSE IF e.ModuleAddress > 0 /\ e.KnownOffset > 0
    THEN Resolved(SetKnownAddress(e, e.ModuleAddress + e.KnownOffset),
                  Some(e.ModuleAddress + e.KnownOffset), <<"base">>)
    ELSE Update(e, img)

\* the comparison at the end of Verify
VerifyCompare(e, newAddress) ==
    IF newAddress # 0 THEN newAddress = e.TargetAddress ELSE e.TargetAddress # 0

Verify(e, img) ==
    IF e.ModuleAddress > 0 /\ e.KnownOffset > 0
    THEN Resolved(e, TRUE, <<>>)
    ELSE IF e.IsSymbolExport
    THEN LET lookup == LookupExportAddress(img, e.ModuleName) IN
         IF lookup = Nullopt THEN Resolved(e, FALSE, <<"export">>)
         ELSE Resolved(e, VerifyCompare(e, lookup[2]), <<"export">>)
    ELSE IF e.HasPattern
    THEN LET search == ModuleSearch(img, e.ModuleName) IN
         IF search = Nullopt THEN Resolved(e, FALSE, <<"scan">>)
         ELSE Resolved(e, VerifyCompare(e, search[2]), <<"scan">>)
    ELSE Resolved(e, VerifyCompare(e, 0), <<>>)

\* history record of the last AddressEntry / AddressDB call
NoDbCall ==
    [op |-> "Init", key |-> <<>>, pre |-> NoEntry, arg |-> NoEntry, ret |-> Nullopt,
     ok |-> FALSE,
     tried |-> <<>>, img |-> [base |-> 0, exp |-> 0, sig |-> 0],
     verified |-> <<>>, updated |-> <<>>, locked |-> FALSE, dangling |-> FALSE]

DbCall(op, pre, r) ==
    [NoDbCall EXCEPT !.op = op, !.pre = pre, !.ret = r.ret, !.tried = r.tried, !.img = image]

\* the entries a caller constructs
NewEntries ==
    {AddressEntryNew(1, mn) : mn \in ModuleNames}
    \cup {WithKnownAddress(1, "m", 19), WithKnownOffset(1, "m", 3), WithScanPattern(1, "m")}

\* the Manager's state, which the address subsystem never touches
ManagerVars == <<mem, prot, objs, Mods, applied, last, thr, lock, clog, slast, txn, sym>>

\* --- a caller's own AddressEntry
EntCreate(e) ==
    /\ ent = NoEntry
    /\ ent' = e
    /\ dlast' = [NoDbCall EXCEPT !.op = "Create"]
    /\ UNCHANGED <<image, db, dbLock, ManagerVars>>

EntSet(op, e) ==
    /\ ent # NoEntry
    /\ ent' = e
    /\ ent' # ent
    /\ dlast' = [NoDbCall EXCEPT !.op = op, !.pre = ent]
    /\ UNCHANGED <<image, db, dbLock, ManagerVars>>

EntSetModuleBase(moduleAddress) == EntSet("SetModuleBase", SetModuleBase(ent, moduleAddress))
EntSetKnownOffset(offset) == EntSet("SetKnownOffset", SetKnownOffset(ent, offset))
EntSetScanPattern == EntSet("SetScanPattern", SetScanPattern(ent))

EntResolve(op, r) ==
    /\ ent # NoEntry
    /\ ent' = r.entry
    /\ dlast' = DbCall(op, ent, r)
    /\ UNCHANGED <<image, db, dbLock, ManagerVars>>

EntUpdate == EntResolve("Update", Update(ent, image))
EntGetAddress == EntResolve("GetAddress", GetAddress(ent, image))

\* Verify returns a bool, kept in the history's ok
EntVerify ==
    LET r == Verify(ent, image) IN
    /\ ent # NoEntry
    /\ ent' = r.entry
    /\ dlast' = [NoDbCall EXCEPT !.op = "Verify", !.pre = ent, !.ok = r.ret,
                                 !.tried = r.tried, !.img = image]
    /\ UNCHANGED <<image, db, dbLock, ManagerVars>>

\* the module is loaded, unloaded, relocated or rebuilt
Relocate(img) ==
    /\ img # image
    /\ image' = img
    /\ dlast' = [NoDbCall EXCEPT !.op = "Relocate", !.img = img]
    /\ UNCHANGED <<ent, db, dbLock, ManagerVars>>

\* ------------------------------------------------------------------ address scanner
\* size_t arithmetic wraps at SizeMod; a byte at ByteMod
SizeMod == 2 ^ 4
ByteMod == 2 ^ 8

\* the characters of pattern strings; HexChars[v + 1] is the digit of value v
HexChars == <<"0", "1", "2", "3", "4", "5", "6", "7", "8", "9", "A", "B", "C", "D", "E", "F">>
IsHex(c) == \E i \in 1..16 : HexChars[i] = c
HexVal(c) == (CHOOSE i \in 1..16 : HexChars[i] = c) - 1

\* a string is the sequence of its characters
\* std::getline(iss, byteStr, ','), repeated until it fails: the pieces between the
\* commas; after the last comma, a piece with no character is not produced
RECURSIVE SplitFrom(_, _, _)
SplitFrom(text, i, cur) ==
    IF i > Len(text) THEN (IF cur = <<>> THEN <<>> ELSE <<cur>>)
    ELSE IF text[i] = "," THEN <<cur>> \o SplitFrom(text, i + 1, <<>>)
    ELSE SplitFrom(text, i + 1, Append(cur, text[i]))

GetLines(text) == SplitFrom(text, 1, <<>>)

\* the digits std::stoul(s, nullptr, 16) converts: after an optional 0x, the
\* longest run of hexadecimal digits (the strings tried hold no blank and no sign)
RECURSIVE HexRun(_, _)
HexRun(tok, i) ==
    IF i > Len(tok) \/ ~IsHex(tok[i]) THEN <<>> ELSE <<tok[i]>> \o HexRun(tok, i + 1)

StoulDigits(tok) ==
    IF Len(tok) >= 3 /\ tok[1] = "0" /\ tok[2] \in {"x", "X"} /\ IsHex(tok[3])
    THEN HexRun(tok, 3)
    ELSE HexRun(tok, 1)

RECURSIVE HexNumber(_)
HexNumber(ds) ==
    IF ds = <<>> THEN 0 ELSE 16 * HexNumber(SubSeq(ds, 1, Len(ds) - 1)) + HexVal(ds[Len(ds)])

\* the outcome of ParsePattern: the pattern returned, or an exception leaving it
Parsed(pattern) == [threw |-> FALSE, pattern |-> pattern]
Thrown == [threw |-> TRUE, pattern |-> <<>>]

\* ParsePattern that takes only "?" for a wildcard
RECURSIVE ParseTokensOneMark(_, _, _)
ParseTokensOneMark(toks, i, pattern) ==
    IF i > Len(toks) THEN Parsed(pattern)
    ELSE IF toks[i] = <<"?">>
    THEN ParseTokensOneMark(toks, i + 1, Append(pattern, Nullopt))
    ELSE IF StoulDigits(toks[i]) = <<>> THEN Thrown
    ELSE ParseTokensOneMark(toks, i + 1,
                            Append(pattern, Some(HexNumber(StoulDigits(toks[i])) % ByteMod)))

\* the loop of ParsePattern: std::stoul throws std::invalid_argument when it can
\* convert nothing, and nothing in ParsePattern catches it
RECURSIVE ParseTokens(_, _, _)
ParseTokens(toks, i, pattern) ==
    IF i > Len(toks) THEN Parsed(pattern)
    ELSE IF toks[i] = <<"?">> \/ toks[i] = <<"?", "?">>
    THEN ParseTokens(toks, i + 1, Append(pattern, Nullopt))
    ELSE IF StoulDigits(toks[i]) = <<>> THEN Thrown
    ELSE ParseTokens(toks, i + 1,
                     Append(pattern, Some(HexNumber(StoulDigits(toks[i])) % ByteMod)))

ParsePattern(text) == ParseTokens(GetLines(text), 1, <<>>)

\* what one FindSignature call finds in memory: the size bytes of the region are
\* followed by the bytes of tail, and a read at offset `readable` or beyond it
\* raises an access violation
ReadAt(region, tail, readable, idx) ==
    IF idx >= readable \/ idx >= Len(region) + Len(tail) THEN <<>>
    ELSE <<(region \o tail)[idx + 1]>>

\* the inner loop at start offset i: "match", "differ", or "fault"
RECURSIVE MatchAt(_, _, _, _, _, _)
MatchAt(region, tail, readable, pattern, i, j) ==
    IF j >= Len(pattern) THEN "match"
    ELSE IF pattern[j + 1] = Nullopt
    THEN MatchAt(region, tail, readable, pattern, i, j + 1)
    ELSE LET b == ReadAt(region, tail, readable, (i + j) % SizeMod) IN
         IF b = <<>> THEN "fault"
         ELSE IF b[1] # pattern[j + 1][1] THEN "differ"
         ELSE MatchAt(region, tail, readable, pattern, i, j + 1)

\* the outcome of FindSignature: the offset returned (address - base), the start
\* offsets examined, whether a read faulted, and whether the fault left the function
Found(ret, examined, faulted, escaped) ==
    [ret |-> ret, examined |-> examined, faulted |-> faulted, escaped |-> escaped]

\* FindSignature without the __try / __except around the scan
RECURSIVE FindUnguarded(_, _, _, _, _, _, _, _)
FindUnguarded(region, tail, readable, pattern, skipCount, i, foundCount, examined) ==
    LET last_i == (Len(region) - Len(pattern)) % SizeMod
        m == MatchAt(region, tail, readable, pattern, i, 0)
        seen == Append(examined, i)
    IN  IF i > last_i THEN Found(Nullopt, examined, FALSE, FALSE)
        ELSE IF m = "fault" THEN Found(Nullopt, seen, TRUE, TRUE)
        ELSE IF m = "match" /\ ~(skipCount # SizeMod - 1 /\ foundCount < skipCount)
        THEN Found(Some(i), seen, FALSE, FALSE)
        ELSE IF i = SizeMod - 1 THEN Found(Nullopt, seen, FALSE, FALSE)
        ELSE FindUnguarded(region, tail, readable, pattern, skipCount, i + 1,
                           IF m = "match" THEN foundCount + 1 ELSE foundCount, seen)

\* FindSignature that stops one start offset earlier
RECURSIVE FindHalfOpen(_, _, _, _, _, _, _, _)
FindHalfOpen(region, tail, readable, pattern, skipCount, i, foundCount, examined) ==
    LET last_i == (Len(region) - Len(pattern)) % SizeMod
        m == MatchAt(region, tail, readable, pattern, i, 0)
        seen == Append(examined, i)
    IN  IF i >= last_i THEN Found(Nullopt, examined, FALSE, FALSE)
        ELSE IF m = "fault" THEN Found(Nullopt, seen, TRUE, FALSE)
        ELSE IF m = "match" /\ ~(skipCount # SizeMod - 1 /\ foundCount < skipCount)
        THEN Found(Some(i), seen, FALSE, FALSE)
        ELSE IF i = SizeMod - 1 THEN Found(Nullopt, seen, FALSE, FALSE)
        ELSE FindHalfOpen(region, tail, readable, pattern, skipCount, i + 1,
                          IF m = "match" THEN foundCount + 1 ELSE foundCount, seen)

\* the loop `for (i = 0; i <= size - patternSize; ++i)` inside __try: size_t
\* arithmetic, `skipCount != -1` compares with the largest size_t; an access
\* violation is caught by __except (EXCEPTION_EXECUTE_HANDLER) and std::nullopt
\* returned.  (A loop that reaches the largest size_t without a match or a fault
\* is cut there.)
RECURSIVE FindFrom(_, _, _, _, _, _, _, _)
FindFrom(region, tail, readable, pattern, skipCount, i, foundCount, examined) ==
    LET last_i == (Len(region) - Len(pattern)) % SizeMod
        m == MatchAt(region, tail, readable, pattern, i, 0)
        seen == Append(examined, i)
    IN  IF i > last_i THEN Found(Nullopt, examined, FALSE, FALSE)
        ELSE IF m = "fault" THEN Found(Nullopt, seen, TRUE, FALSE)
        ELSE IF m = "match" /\ ~(skipCount # SizeMod - 1 /\ foundCount < skipCount)
        THEN Found(Some(i), seen, FALSE, FALSE)
        ELSE IF i = SizeMod - 1 THEN Found(Nullopt, seen, FALSE, FALSE)
        ELSE FindFrom(region, tail, readable, pattern, skipCount, i + 1,
                      IF m = "match" THEN foundCount + 1 ELSE foundCount, seen)

FindSignature(region, tail, readable, pattern, skipCount) ==
    FindFrom(region, tail, readable, pattern, skipCount, 0, 0, <<>>)

\* the strings and the memory tried
PatternTokens ==
    {<<"4", "8">>, <<"8", "B">>, <<"8", "9">>, <<"?">>, <<"?", "?">>, <<"0", "x", "4", "8">>,
     <<"Z", "Z">>, <<>>, <<"4", "Z">>, <<"1", "F", "F">>}

RECURSIVE Join(_)
Join(toks) ==
    IF toks = <<>> THEN <<>>
    ELSE IF Len(toks) = 1 THEN toks[1]
    ELSE toks[1] \o <<",">> \o Join(Tail(toks))

TokenLists ==
    UNION {[1..n -> PatternTokens] : n \in 0..MaxTokens}
    \cup {<<<<"4", "8">>, <<"8", "B">>, <<"?">>, <<"8", "9">>>>}

ScanBytes == {17, 34}
Regions ==
    UNION {[1..n -> ScanBytes] : n \in 0..MaxRegion} \cup {<<17, 34, 51, 17, 34, 68>>}
Patterns == UNION {[1..n -> {Some(17), Some(34), Nullopt}] : n \in 0..MaxPattern}
Tails == {<<>>, <<17, 34>>}
SkipCounts == {0, 1, 2, SizeMod - 1}

NoScan ==
    [op |-> "Init", done |-> FALSE, toks |-> <<>>, text |-> <<>>, threw |-> FALSE, pattern |-> <<>>,
     region |-> <<>>, tail |-> <<>>, readable |-> 0, skipCount |-> 0,
     ret |-> Nullopt, examined |-> <<>>, faulted |-> FALSE, escaped |-> FALSE]

NotScanVars ==
    <<mem, prot, objs, Mods, applied, last, thr, lock, clog, ent, db, dbLock, image, dlast, txn, sym>>

\* the calls about to be made, with their arguments
ParseArgs(op, toks) == [NoScan EXCEPT !.op = op, !.toks = toks, !.text = Join(toks)]

FindArgs(region, tail, readable, pattern, skipCount) ==
    [NoScan EXCEPT !.op = "FindSignature", !.region = region, !.tail = tail,
                   !.readable = readable, !.pattern = pattern, !.skipCount = skipCount]

\* a call of ParsePattern, or of SetScanPattern / WithScanPattern / ModuleSearch,
\* which hand their string to ParsePattern and catch nothing
ParseCall ==
    LET r == ParsePattern(slast.text) IN
    /\ slast.op \in {"ParsePattern", "SetScanPattern", "WithScanPattern", "ModuleSearch"}
    /\ ~slast.done
    /\ slast' = [slast EXCEPT !.done = TRUE, !.threw = r.threw, !.pattern = r.pattern]
    /\ UNCHANGED NotScanVars

FindCall ==
    LET r == FindSignature(slast.region, slast.tail, slast.readable, slast.pattern,
                           slast.skipCount)
    IN  /\ slast.op = "FindSignature"
        /\ ~slast.done
        /\ slast' = [slast EXCEPT !.done = TRUE, !.ret = r.ret, !.examined = r.examined,
                                  !.faulted = r.faulted, !.escaped = r.escaped]
        /\ UNCHANGED NotScanVars

\* ------------------------------------------------------------------ address database
\* the Manager's state apart from the threads
RegVars == <<mem, prot, objs, Mods, applied, last, lock, clog, slast, txn, sym>>

\* std::shared_mutex: nobody holds it / nobody holds it exclusively
Free(l) == l.writer = 0 /\ l.readers = {}
NoWriter(l) == l.writer = 0

\* the k-th key in the map's iteration order
KeyOf(k) == <<k, "m">>

\* the entries handed to Add
DbEntries ==
    UNION {{AddressEntryNew(sn, "m"), WithKnownAddress(sn, "m", 19),
            WithKnownOffset(sn, "m", 3), WithScanPattern(sn, "m")} : sn \in Symbols}

Stored(key) == db.ents[key] # NoEntry

\* threads that are inside a call cannot start another one
IsIdle(t) == thr[t].pc = "idle"

\* Add that keeps the entry already stored under the key
DbAddKeepingOld(t, e) ==
    LET key == <<e.SymbolName, e.ModuleName>> IN
    /\ IsIdle(t)
    /\ Free(dbLock)
    /\ db.next <= MaxAllocs
    /\ db' = IF Stored(key) THEN db
             ELSE [ents |-> [db.ents EXCEPT ![key] = [e EXCEPT !.Id = db.next]],
                   next |-> db.next + 1]
    /\ dlast' = [NoDbCall EXCEPT !.op = "Add", !.key = key, !.pre = db.ents[key], !.arg = e]
    /\ UNCHANGED <<ent, image, dbLock, thr, RegVars>>

\* AddressDB::Add: the whole body runs under the unique lock
DbAdd(t, e) ==
    LET key == <<e.SymbolName, e.ModuleName>> IN
    /\ IsIdle(t)
    /\ Free(dbLock)
    /\ db.next <= MaxAllocs
    /\ db' = [ents |-> [db.ents EXCEPT ![key] = [e EXCEPT !.Id = db.next]],
              next |-> db.next + 1]
    /\ dlast' = [NoDbCall EXCEPT !.op = "Add", !.key = key, !.pre = db.ents[key], !.arg = e]
    /\ UNCHANGED <<ent, image, dbLock, thr, RegVars>>

DbRemove(t, key) ==
    /\ IsIdle(t)
    /\ Free(dbLock)
    /\ db' = [db EXCEPT !.ents[key] = NoEntry]
    /\ dlast' = [NoDbCall EXCEPT !.op = "Remove", !.key = key, !.pre = db.ents[key],
                                 !.ok = Stored(key)]
    /\ UNCHANGED <<ent, image, dbLock, thr, RegVars>>

DbClear(t) ==
    /\ IsIdle(t)
    /\ Free(dbLock)
    /\ db' = [db EXCEPT !.ents = [k \in DbKeys |-> NoEntry]]
    /\ dlast' = [NoDbCall EXCEPT !.op = "Clear"]
    /\ UNCHANGED <<ent, image, dbLock, thr, RegVars>>

\* UpdateAll / VerifyAll: `for (auto& [key, entry] : Mutate())` takes the unique
\* lock for the whole loop
DbLoopBegin(t, op) ==
    /\ IsIdle(t)
    /\ Free(dbLock)
    /\ dbLock' = [dbLock EXCEPT !.writer = t]
    /\ thr' = [thr EXCEPT ![t] = [Idle EXCEPT !.pc = "dbloop", !.op = op, !.k = 1]]
    /\ dlast' = [NoDbCall EXCEPT !.op = "LoopBegin"]
    /\ UNCHANGED <<ent, image, db, RegVars>>

\* UpdateAll body that calls Update() without SetModuleBase
UpdateAllBodyKeepingBase(e, img) ==
    LET hMod == GetModuleHandleW(img, e.ModuleName) IN
    IF hMod = 0 THEN Resolved(e, Nullopt, <<>>) ELSE Update(e, img)

\* the body of UpdateAll's loop for one entry
UpdateAllBody(e, img) ==
    LET hMod == GetModuleHandleW(img, e.ModuleName) IN
    IF hMod = 0 THEN Resolved(e, Nullopt, <<>>) ELSE Update(SetModuleBase(e, hMod), img)

\* the outcome of VerifyAll's loop body for one entry: the entry afterwards,
\* Verify()'s result, whether Update() was called, and the strategies run
Verified(e, ret, updated, tried) ==
    [entry |-> e, ret |-> ret, updated |-> updated, tried |-> tried]

\* VerifyAll body that does not call Update() after a failed Verify()
VerifyAllBodyNoHeal(e, img) ==
    LET v == Verify(e, img) IN Verified(e, v.ret, FALSE, v.tried)

\* the body of VerifyAll's loop for one entry
VerifyAllBody(e, img) ==
    LET v == Verify(e, img) IN
    IF v.ret THEN Verified(e, TRUE, FALSE, v.tried)
    ELSE LET u == Update(e, img) IN Verified(u.entry, FALSE, TRUE, v.tried \o u.tried)

\* one iteration of the loop: the entries are visited in key order
DbLoopStep(t) ==
    LET k == thr[t].k
        e == db.ents[KeyOf(k)]
        isVerify == thr[t].op = "VerifyAll"
        r == IF isVerify THEN VerifyAllBody(e, image) ELSE UpdateAllBody(e, image)
        failed == isVerify /\ ~r.ret
        healed == isVerify /\ r.updated
    IN  /\ thr[t].pc = "dbloop"
        /\ k \in Symbols
        /\ IF Stored(KeyOf(k))
           THEN /\ db' = [db EXCEPT !.ents[KeyOf(k)] = r.entry]
                /\ thr' = [thr EXCEPT ![t].k = k + 1,
                               ![t].out = IF isVerify THEN Append(@, <<k, r.ret>>) ELSE @,
                               ![t].called = IF healed THEN Append(@, k) ELSE @,
                               ![t].ret = @ /\ ~failed]
                /\ dlast' = [NoDbCall EXCEPT !.op = "LoopStep", !.key = KeyOf(k), !.pre = e,
                                             !.tried = r.tried, !.img = image,
                                             !.locked = (dbLock.writer = t)]
           ELSE /\ thr' = [thr EXCEPT ![t].k = k + 1]
                /\ UNCHANGED <<db, dlast>>
        /\ UNCHANGED <<ent, image, dbLock, RegVars>>

\* the loop is over: the view releases the lock, the call returns
DbLoopEnd(t) ==
    /\ thr[t].pc = "dbloop"
    /\ thr[t].k \notin Symbols
    /\ dbLock' = [dbLock EXCEPT !.writer = 0]
    /\ thr' = [thr EXCEPT ![t] = Idle]
    /\ dlast' = [NoDbCall EXCEPT !.op = thr[t].op, !.ok = thr[t].ret,
                                 !.verified = thr[t].out, !.updated = thr[t].called]
    /\ UNCHANGED <<ent, image, db, RegVars>>

\* AddressDB::Find: the lookup runs under the shared lock, the pointer returned
\* (key and allocation) outlives it
DbFind(t, key) ==
    /\ IsIdle(t)
    /\ thr[t].ptr = <<>>
    /\ NoWriter(dbLock)
    /\ Stored(key)
    /\ thr' = [thr EXCEPT ![t].ptr = <<key, db.ents[key].Id>>]
    /\ dlast' = [NoDbCall EXCEPT !.op = "Find", !.key = key, !.pre = db.ents[key]]
    /\ UNCHANGED <<ent, image, db, dbLock, RegVars>>

\* the entry a Find pointer points to is still the one stored
Alive(ptr) == db.ents[ptr[1]].Id = ptr[2]

\* the caller uses the pointer Find returned: entry->Update().  When the entry was
\* destroyed meanwhile the call reads freed memory: it may return anything
DbDeref(t, garbage) ==
    LET ptr == thr[t].ptr
        r == Update(db.ents[ptr[1]], image)
    IN  /\ IsIdle(t)
        /\ ptr # <<>>
        /\ thr' = [thr EXCEPT ![t].ptr = <<>>]
        /\ IF Alive(ptr)
           THEN /\ db' = [db EXCEPT !.ents[ptr[1]] = r.entry]
                /\ dlast' = [DbCall("Deref", db.ents[ptr[1]], r)
                                EXCEPT !.key = ptr[1],
                                       !.locked = (t \in dbLock.readers \/ dbLock.writer = t)]
           ELSE /\ db' = db
                /\ dlast' = [NoDbCall EXCEPT !.op = "Deref", !.key = ptr[1], !.ret = garbage,
                                             !.dangling = TRUE]
        /\ UNCHANGED <<ent, image, dbLock, RegVars>>

\* ------------------------------------------------------------------ Manager calls by threads
\* the Database's state and the single entry
DbVars == <<ent, db, dbLock, image, dlast, slast, txn, sym>>

\* what a thread does to the collection or to a Modification in one step, and
\* which hold it has on ModsMutex while doing it
Step(t, kind, shared, excl) ==
    [NoStep EXCEPT !.t = t, !.kind = kind, !.shared = shared, !.excl = excl]

Holds(t, kind) ==
    Step(t, kind, t \in lock.readers, lock.writer = t)

\* AddMod / EraseMod by a thread: the collection changes under the unique lock
LockedAddMod(t, key, id, groupID) ==
    /\ IsIdle(t)
    /\ Free(lock)
    /\ AddMod(key, id, groupID)

LockedEraseMod(t, key) ==
    /\ IsIdle(t)
    /\ Free(lock)
    /\ EraseMod(key)

\* the first step of ApplyMod / RestoreMod / RestoreAndEraseMod (ModExists(key, &hMod))
\* and the whole of GetMod: the lookup under the shared lock, which is released
\* when the lookup returns.  The thread keeps the shared_ptr it copied.
Lookup(t, op, key) ==
    LET found == ModExists(key)
        next == CASE op = "GetMod" -> IF found THEN "hold" ELSE "idle"
                  [] op = "RestoreAndEraseMod" -> IF found THEN "call" ELSE "erase"
                  [] OTHER -> IF found THEN "call" ELSE "idle"
    IN  /\ IsIdle(t)
        /\ NoWriter(lock)
        /\ thr' = [thr EXCEPT ![t] = [Idle EXCEPT !.pc = next, !.op = op, !.key = key,
                                                  !.hMod = Mods[key],
                                                  !.isApply = (op = "ApplyMod")]]
        /\ last' = Call(IF op = "GetMod" THEN op ELSE "ModExists", key, Mods[key], found, <<>>)
        /\ clog' = Step(t, "read", TRUE, FALSE)
        /\ UNCHANGED <<mem, prot, objs, Mods, applied, lock, DbVars>>

\* hMod->Apply() / hMod->Restore() on the shared_ptr the thread holds
HeldCall(t, op, isApply, e, next) ==
    LET id == thr[t].hMod
        st == Invoke(Cur, id, isApply, e)
    IN  /\ Commit(st)
        /\ last' = [Call(op, thr[t].key, id, FALSE, st.called)
                        EXCEPT !.prev = Mods[thr[t].key], !.was = objs[id].IsModified]
        /\ thr' = [thr EXCEPT ![t] = IF next = "idle" THEN Idle
                                     ELSE [@ EXCEPT !.pc = next, !.called = st.called]]
        /\ clog' = Holds(t, "call")
        /\ UNCHANGED <<Mods, lock, DbVars>>

\* the second step of ApplyMod / RestoreMod / RestoreAndEraseMod
KeyedStep(t, e) ==
    /\ thr[t].pc = "call"
    /\ HeldCall(t, thr[t].op, thr[t].isApply, e,
                IF thr[t].op = "RestoreAndEraseMod" THEN "erase" ELSE "idle")

\* a caller's Apply() / Restore() on the shared_ptr GetMod returned
UseMod(t, isApply, e) ==
    /\ thr[t].pc = "hold"
    /\ HeldCall(t, IF isApply THEN "Apply" ELSE "Restore", isApply, e, "idle")

\* the last step of RestoreAndEraseMod: EraseMod(key), then `return a & b`
EraseStep(t) ==
    LET key == thr[t].key IN
    /\ thr[t].pc = "erase"
    /\ Free(lock)
    /\ Mods' = [Mods EXCEPT ![key] = 0]
    /\ last' = [Call("RestoreAndEraseMod", key, Mods[key],
                     RestoreModRet(key, Cur) /\ ModExists(key), thr[t].called)
                    EXCEPT !.prev = Mods[key], !.was = HoldsActive(key)]
    /\ thr' = [thr EXCEPT ![t] = Idle]
    /\ clog' = Step(t, "write", FALSE, TRUE)
    /\ UNCHANGED <<mem, prot, objs, applied, lock, DbVars>>

\* ------------------------------------------------------------------ symbol loader
\* count: SymRefCount; loaded: SymLoaded; op, ret: the last call and what it returned
\* (CleanupSymbols and ForceCleanupSymbols return nothing: TRUE)
NoSym == [count |-> 0, loaded |-> FALSE, op |-> "none", ret |-> TRUE]

NotSymVars ==
    <<mem, prot, objs, Mods, applied, last, lock, clog, ent, db, dbLock, image, dlast, slast, txn>>

\* a thread calls into the SymbolLoader and waits for SymMutex
SymCall(t, op) ==
    /\ IsIdle(t)
    /\ thr' = [thr EXCEPT ![t] = [Idle EXCEPT !.pc = "sym", !.op = op]]
    /\ UNCHANGED <<sym, NotSymVars>>

\* the body of InitSymbols; ok: SymInitialize succeeds
InitSymbols(s, ok) ==
    IF s.count = 0
    THEN IF ok THEN [count |-> 1, loaded |-> TRUE, op |-> "InitSymbols", ret |-> TRUE]
         ELSE [s EXCEPT !.op = "InitSymbols", !.ret = FALSE]
    ELSE [s EXCEPT !.count = @ + 1, !.op = "InitSymbols", !.ret = TRUE]

\* the body of CleanupSymbols
CleanupSymbols(s) ==
    [count |-> s.count - 1,
     loaded |-> IF s.count = 1 /\ s.loaded THEN FALSE ELSE s.loaded,
     op |-> "CleanupSymbols", ret |-> TRUE]

\* the body of ForceCleanupSymbols
ForceCleanupSymbols(s) ==
    IF s.loaded THEN [count |-> 0, loaded |-> FALSE, op |-> "ForceCleanupSymbols", ret |-> TRUE]
    ELSE [s EXCEPT !.op = "ForceCleanupSymbols", !.ret = TRUE]

\* the thread gets SymMutex and runs the whole function under it
SymRun(t, ok) ==
    /\ thr[t].pc = "sym"
    /\ sym' = CASE thr[t].op = "InitSymbols" -> InitSymbols(sym, ok)
                 [] thr[t].op = "CleanupSymbols" -> CleanupSymbols(sym)
                 [] OTHER -> ForceCleanupSymbols(sym)
    /\ sym'.count \in (0 - MaxRefs)..MaxRefs
    /\ thr' = [thr EXCEPT ![t] = Idle]
    /\ UNCHANGED NotSymVars

\* ------------------------------------------------------------------ AddMod by threads
\* `if (!ModExists(key))`: the lookup under the shared lock, released before the
\* answer is used; AddMod returns false when the key is taken
AddModCheck(t, key, id, groupID) ==
    /\ IsIdle(t)
    /\ NoWriter(lock)
    /\ IF ModExists(key)
       THEN /\ last' = [Call("AddMod", key, id, FALSE, <<>>) EXCEPT !.prev = Mods[key]]
            /\ thr' = thr
       ELSE /\ thr' = [thr EXCEPT ![t] = [Idle EXCEPT !.pc = "add", !.op = "AddMod",
                                                      !.key = key, !.hMod = id,
                                                      !.groupID = groupID]]
            /\ last' = last
    /\ clog' = Step(t, "read", TRUE, FALSE)
    /\ UNCHANGED <<mem, prot, objs, Mods, applied, lock, DbVars>>

\* under the unique lock: hMod->Key = key, hMod->GroupID = groupID,
\* Mods.emplace(key, hMod) (which keeps an entry already there), return true
AddModInsert(t) ==
    LET key == thr[t].key
        id == thr[t].hMod
    IN  /\ thr[t].pc = "add"
        /\ Free(lock)
        /\ objs' = [objs EXCEPT ![id].Key = key, ![id].GroupID = thr[t].groupID]
        /\ Mods' = IF ModExists(key) THEN Mods ELSE [Mods EXCEPT ![key] = id]
        /\ last' = [Call("AddMod", key, id, TRUE, <<>>) EXCEPT !.prev = Mods[key]]
        /\ thr' = [thr EXCEPT ![t] = Idle]
        /\ clog' = Step(t, "write", FALSE, TRUE)
        /\ UNCHANGED <<mem, prot, applied, lock, DbVars>>

\* ------------------------------------------------------------------ Patch::Apply by threads
\* hMod->Apply() on a Patch, as the steps another thread can come between; the
\* object has no lock of its own and the callers hold ModsMutex shared or not at all.
\* The call returns to ApplyMod, which returns in the same step.
PatchApplyReturn(t, ret) ==
    /\ last' = [Call("ApplyMod", thr[t].key, thr[t].hMod, FALSE, <<<<thr[t].hMod, ret>>>>)
                    EXCEPT !.prev = Mods[thr[t].key]]
    /\ thr' = [thr EXCEPT ![t] = Idle]

\* the checks and the first VirtualProtect
PatchApplyEnter(t) ==
    LET o == objs[thr[t].hMod] IN
    /\ thr[t].pc = "call" /\ thr[t].op = "ApplyMod"
    /\ o.Type = "Patch"
    /\ IF o.IsModified THEN PatchApplyReturn(t, TRUE) /\ prot' = prot
       ELSE IF o.TargetAddress = 0 THEN PatchApplyReturn(t, FALSE) /\ prot' = prot
       ELSE /\ thr' = [thr EXCEPT ![t].pc = "save", ![t].oldProtection = prot]
            /\ prot' = "RWX"
            /\ last' = last
    /\ clog' = Holds(t, "call")
    /\ UNCHANGED <<mem, objs, Mods, applied, lock, DbVars>>

\* memcpy(OriginalBytes.data(), targetPointer, Size)
PatchApplySave(t) ==
    LET id == thr[t].hMod IN
    /\ thr[t].pc = "save"
    /\ objs' = [objs EXCEPT ![id].OriginalBytes =
                                ReadBytes(mem, objs[id].TargetAddress, objs[id].Size)]
    /\ thr' = [thr EXCEPT ![t].pc = "write"]
    /\ clog' = Holds(t, "call")
    /\ UNCHANGED <<mem, prot, Mods, applied, last, lock, DbVars>>

\* memcpy(targetPointer, PatchBytes.data(), Size), the second VirtualProtect,
\* IsModified = true, return true
PatchApplyWrite(t) ==
    LET id == thr[t].hMod IN
    /\ thr[t].pc = "write"
    /\ mem' = WriteBytes(mem, objs[id].TargetAddress, objs[id].PatchBytes, objs[id].Size)
    /\ prot' = thr[t].oldProtection
    /\ objs' = [objs EXCEPT ![id].IsModified = TRUE]
    /\ applied' = [applied EXCEPT ![id] = TRUE]
    /\ PatchApplyReturn(t, TRUE)
    /\ clog' = Holds(t, "call")
    /\ UNCHANGED <<Mods, lock, DbVars>>

\* ------------------------------------------------------------------ bulk calls by threads
\* ApplyAllMods / RestoreAllMods take the shared lock, RestoreAndEraseAllMods the
\* unique lock, as a local that lives until the function returns
BulkBegin(t, op) ==
    LET excl == op = "RestoreAndEraseAllMods" IN
    /\ IsIdle(t)
    /\ IF excl THEN Free(lock) ELSE NoWriter(lock)
    /\ lock' = IF excl THEN [lock EXCEPT !.writer = t]
               ELSE [lock EXCEPT !.readers = @ \cup {t}]
    /\ thr' = [thr EXCEPT ![t] = [Idle EXCEPT !.pc = "bulk", !.op = op, !.k = 1,
                                              !.isApply = (op = "ApplyAllMods")]]
    /\ UNCHANGED <<mem, prot, objs, Mods, applied, last, clog, DbVars>>

\* the lambda of all_of / erase_if on the next entry: all_of ends at the first
\* result of false, erase_if removes every entry it visits
BulkStep(t, e) ==
    LET k == thr[t].k
        st == Invoke(Cur, Mods[k], thr[t].isApply, e)
        ok == st.called[1][2]
        erasing == thr[t].op = "RestoreAndEraseAllMods"
    IN  /\ thr[t].pc = "bulk"
        /\ k \in Keys
        /\ IF Mods[k] = 0
           THEN /\ thr' = [thr EXCEPT ![t].k = k + 1]
                /\ UNCHANGED <<mem, prot, objs, Mods, applied, clog>>
           ELSE /\ Commit(st)
                /\ Mods' = IF erasing THEN [Mods EXCEPT ![k] = 0] ELSE Mods
                /\ thr' = [thr EXCEPT ![t].k = IF erasing \/ ok THEN k + 1 ELSE MaxKeys + 1,
                                      ![t].ret = erasing \/ ok,
                                      ![t].called = @ \o st.called]
                /\ clog' = Holds(t, "call")
        /\ UNCHANGED <<last, lock, DbVars>>

BulkEnd(t) ==
    /\ thr[t].pc = "bulk"
    /\ thr[t].k \notin Keys
    /\ lock' = [readers |-> lock.readers \ {t}, writer |-> IF lock.writer = t THEN 0 ELSE lock.writer]
    /\ last' = [Call(thr[t].op, 0, 0, thr[t].ret, thr[t].called) EXCEPT !.sel = SelAll]
    /\ thr' = [thr EXCEPT ![t] = Idle]
    /\ UNCHANGED <<mem, prot, objs, Mods, applied, clog, DbVars>>

\* IsLocationModified entered: the loop starts at Mods.begin(); no lock is taken
QueryBegin(t, address, length) ==
    /\ IsIdle(t)
    /\ thr' = [thr EXCEPT ![t] = [Idle EXCEPT !.pc = "query", !.op = "IsLocationModified",
                                              !.k = 1, !.addr = address, !.len = length,
                                              !.seen = Mods]]
    /\ UNCHANGED <<mem, prot, objs, Mods, applied, last, lock, clog, DbVars>>

\* one iteration of IsLocationModified's loop.  When the collection was changed
\* since the loop began, the iterator walks a map another thread has written
\* to: the entry read may be anything (hit)
QueryStep(t, hit) ==
    LET k == thr[t].k
        endAddress == (thr[t].addr + thr[t].len) % PtrMod
        raced == thr[t].raced \/ Mods # thr[t].seen
        reported == IF raced THEN hit
                    ELSE Mods[k] # 0 /\ Reported(objs[Mods[k]], thr[t].addr, endAddress)
    IN  /\ thr[t].pc = "query"
        /\ k \in Keys
        /\ raced \/ ~hit
        /\ thr' = [thr EXCEPT ![t].k = k + 1, ![t].raced = raced,
                              ![t].out = IF reported THEN Append(@, k) ELSE @]
        /\ clog' = [Holds(t, "read") EXCEPT !.raced = raced]
        /\ UNCHANGED <<mem, prot, objs, Mods, applied, last, lock, DbVars>>

QueryEnd(t) ==
    /\ thr[t].pc = "query"
    /\ thr[t].k \notin Keys
    /\ last' = [Call("IsLocationModified", 0, 0, thr[t].out # <<>>, <<>>)
                    EXCEPT !.addr = thr[t].addr, !.len = thr[t].len, !.keysOut = thr[t].out]
    /\ thr' = [thr EXCEPT ![t] = Idle]
    /\ UNCHANGED <<mem, prot, objs, Mods, applied, lock, clog, DbVars>>

\* ------------------------------------------------------------------ specification
\* nothing constructed, registered or stored; no call made
Quiet ==
    /\ mem = [a \in MemAddrs |-> 16 * a]
    /\ prot = "RX"
    /\ objs = <<>>
    /\ Mods = [k \in Keys |-> 0]
    /\ applied = <<>>
    /\ last = NoCall
    /\ thr = [t \in Threads |-> Idle]
    /\ lock = NoHolder
    /\ clog = NoStep
    /\ ent = NoEntry
    /\ db = [ents |-> [k \in DbKeys |-> NoEntry], next |-> 1]
    /\ dbLock = NoHolder
    /\ image = [base |-> 16, exp |-> 3, sig |-> 5]
    /\ dlast = NoDbCall
    /\ txn = NoTxn
    /\ sym = NoSym

Init == Quiet /\ slast = NoScan

\* Operations grouped by component
Construct ==
    \/ \E a \in PatchArgs : NewPatch(a)
    \/ \E a \in DetourArgs : NewDetour(a)

Direct ==
    \/ \E id \in ObjIds, ptr \in BOOLEAN : WriteOriginalFunction(id, ptr)
    \/ \E id \in ObjIds, e \in Env : Apply(id, e)
    \/ \E id \in ObjIds, e \in Env : Restore(id, e)

Register == \E key \in Keys, id \in ObjIds, g \in GroupIDs : AddMod(key, id, g)

\* AddMod(key, hMod): groupID takes its default value
RegisterDefault == \E key \in Keys, id \in ObjIds : AddMod(key, id, 0)

Keyed ==
    \/ \E key \in Keys, e \in RegEnv : ApplyMod(key, e)
    \/ \E key \in Keys, e \in RegEnv : RestoreMod(key, e)

KeyedErase ==
    \/ \E key \in Keys : EraseMod(key)
    \/ \E key \in Keys, e \in RegEnv : RestoreAndEraseMod(key, e)

Erasing ==
    \/ \E key \in Keys : EraseMod(key)
    \/ EraseAllMods
    \/ \E g \in GroupIDs : EraseByGroupID(g)
    \/ \E t \in ModTypes : EraseByType(t)

BulkOps ==
    \/ \E env \in [Keys -> RegEnv] : ApplyAllMods(env)
    \/ \E env \in [Keys -> RegEnv] : RestoreAllMods(env)
    \/ \E g \in GroupIDs, env \in [Keys -> RegEnv] : ApplyByGroupID(g, env)
    \/ \E g \in GroupIDs, env \in [Keys -> RegEnv] : RestoreByGroupID(g, env)
    \/ \E t \in ModTypes, env \in [Keys -> RegEnv] : ApplyByType(t, env)
    \/ \E t \in ModTypes, env \in [Keys -> RegEnv] : RestoreByType(t, env)

Query == \E q \in Queries, dk \in DetectedKeysIn : IsLocationModified(q[1], q[2], dk)

\* The whole program: every operation, any order.
Next == Construct \/ Direct \/ Register \/ Keyed \/ KeyedErase \/ Erasing \/ BulkOps \/ Query

Spec == Init /\ [][Next]_vars

\* A caller using Modification objects directly, without the Manager.
NextMod == Construct \/ Direct
SpecMod == Init /\ [][NextMod]_vars

\* A caller using the Manager's keyed operations.
NextReg == Construct \/ RegisterDefault \/ Keyed \/ KeyedErase
SpecReg == Init /\ [][NextReg]_vars

\* A caller using Detours directly, each call followed through its hook transaction.
NextTxn ==
    \/ \E a \in DetourArgs : txn.pc = "idle" /\ NewDetour(a)
    \/ \E id \in ObjIds, ptr \in BOOLEAN : txn.pc = "idle" /\ WriteOriginalFunction(id, ptr)
    \/ \E id \in ObjIds, isApply \in BOOLEAN, e \in Env : DetourEnter(id, isApply, e)
    \/ DetourTry
    \/ DetourAbort
    \/ DetourReturn
SpecTxn == Init /\ [][NextTxn]_vars

\* A caller using the Manager's bulk operations.
NextBulk == Construct \/ Register \/ BulkOps
SpecBulk == Init /\ [][NextBulk]_vars

\* A caller applying and erasing Modifications.
NextErase ==
    \/ Construct
    \/ Register
    \/ \E key \in Keys : ApplyMod(key, OkEnv)
    \/ Erasing
SpecErase == Init /\ [][NextErase]_vars

\* A caller resolving and verifying its own AddressEntry while the module changes.
NextEntry ==
    \/ \E e \in NewEntries : EntCreate(e)
    \/ \E b \in {16, 32} : EntSetModuleBase(b)
    \/ \E o \in {3, 4} : EntSetKnownOffset(o)
    \/ EntSetScanPattern
    \/ EntUpdate
    \/ EntGetAddress
    \/ EntVerify
    \/ \E img \in Images : Relocate(img)
SpecEntry == Init /\ [][NextEntry]_vars

\* Two threads using the Manager's keyed operations on one key.
ConcPatches == {<<5, <<2>>>>}
ConcKeys == {1}

NextConc ==
    \/ \E a \in ConcPatches : NewPatch(a)
    \/ \E t \in Threads, key \in ConcKeys, id \in ObjIds : LockedAddMod(t, key, id, 0)
    \/ \E t \in Threads, key \in ConcKeys : LockedEraseMod(t, key)
    \/ \E t \in Threads, key \in ConcKeys,
           op \in {"ApplyMod", "RestoreMod", "RestoreAndEraseMod", "GetMod"} : Lookup(t, op, key)
    \/ \E t \in Threads : KeyedStep(t, OkEnv)
    \/ \E t \in Threads, isApply \in BOOLEAN : UseMod(t, isApply, OkEnv)
    \/ \E t \in Threads : EraseStep(t)
SpecConc == Init /\ [][NextConc]_vars

\* Thread 1 runs bulk operations and overlap queries while thread 2 adds one patch
\* under the keys, erases keys, and fills and updates the Database.
NextLock ==
    \/ \E a \in ConcPatches : objs = <<>> /\ NewPatch(a)
    \/ \E key \in Keys, id \in ObjIds : LockedAddMod(2, key, id, 0)
    \/ \E key \in Keys : LockedEraseMod(2, key)
    \/ \E op \in {"ApplyAllMods", "RestoreAndEraseAllMods"} : BulkBegin(1, op)
    \/ BulkStep(1, OkEnv)
    \/ BulkEnd(1)
    \/ QueryBegin(1, 5, 4)
    \/ \E hit \in BOOLEAN : QueryStep(1, hit)
    \/ QueryEnd(1)
    \/ DbAdd(2, WithScanPattern(1, "m"))
    \/ DbLoopBegin(2, "UpdateAll")
    \/ DbLoopStep(2)
    \/ DbLoopEnd(2)
SpecLock == Init /\ [][NextLock]_vars

\* One call of ParsePattern, directly or through a caller, on each string tried.
InitParse ==
    /\ Quiet
    /\ slast \in {ParseArgs(op, toks) :
                     op \in {"ParsePattern", "SetScanPattern", "WithScanPattern", "ModuleSearch"},
                     toks \in TokenLists}
SpecParse == InitParse /\ [][ParseCall]_vars

\* One call of FindSignature on each region, pattern and skip count tried.
InitFindSig ==
    /\ Quiet
    /\ slast \in {FindArgs(region, tail, readable, pattern, skipCount) :
                     region \in Regions, tail \in Tails, pattern \in Patterns,
                     skipCount \in SkipCounts, readable \in 0..(MaxRegion + 4)}
    /\ slast.readable <= Len(slast.region) + Len(slast.tail)
SpecFindSig == InitFindSig /\ [][FindCall]_vars

\* The modules seen by the callers of the Database
DbImages == {img \in Images : img.sig = 5 /\ img.exp # 4}

\* Callers filling, updating and verifying the Database while the module changes.
NextDb ==
    \/ \E t \in Threads, e \in DbEntries : DbAdd(t, e)
    \/ \E t \in Threads, key \in DbKeys : DbRemove(t, key)
    \/ \E t \in Threads, op \in {"UpdateAll", "VerifyAll"} : DbLoopBegin(t, op)
    \/ \E t \in Threads : DbLoopStep(t)
    \/ \E t \in Threads : DbLoopEnd(t)
    \/ \E img \in DbImages : Relocate(img)
SpecDb == Init /\ [][NextDb]_vars

\* Callers holding pointers returned by Find while other threads change the Database.
NextFind ==
    \/ \E t \in Threads, e \in DbEntries : DbAdd(t, e)
    \/ \E t \in Threads, key \in DbKeys : DbRemove(t, key)
    \/ \E t \in Threads : DbClear(t)
    \/ \E t \in Threads, key \in DbKeys : DbFind(t, key)
    \/ \E t \in Threads, g \in {Nullopt, Some(19)} : DbDeref(t, g)
SpecFind == Init /\ [][NextFind]_vars

\* A caller applying Modifications through the Manager and tearing them down with
\* the restore-and-erase bulk operations; each object is registered in a group of
\* its own.
NextTeardown ==
    \/ \E a \in ConcPatches : NewPatch(a)
    \/ \E a \in DetourArgs : NewDetour(a)
    \/ \E id \in ObjIds, ptr \in BOOLEAN : WriteOriginalFunction(id, ptr)
    \/ \E key \in Keys, id \in ObjIds : AddMod(key, id, id - 1)
    \/ \E key \in Keys : ApplyMod(key, OkEnv)
    \/ \E e \in RegEnv : RestoreAndEraseAllMods([k \in Keys |-> e])
    \/ \E g \in GroupIDs, e \in RegEnv : RestoreAndEraseByGroupID(g, [k \in Keys |-> e])
    \/ \E t \in ModTypes, e \in RegEnv : RestoreAndEraseByType(t, [k \in Keys |-> e])
SpecTeardown == Init /\ [][NextTeardown]_vars

\* Two threads calling ApplyMod on the key of one Patch, and the caller restoring
\* the Patch when no call is in progress.
RacePatches == {<<4, <<1, 1>>>>, <<5, <<2>>>>}

NextRace ==
    \/ \E a \in RacePatches : objs = <<>> /\ NewPatch(a)
    \/ \E t \in Threads, key \in Keys, id \in ObjIds : LockedAddMod(t, key, id, 0)
    \/ \E t \in Threads, key \in Keys : Lookup(t, "ApplyMod", key)
    \/ \E t \in Threads : PatchApplyEnter(t)
    \/ \E t \in Threads : PatchApplySave(t)
    \/ \E t \in Threads : PatchApplyWrite(t)
    \/ \E id \in ObjIds : (\A t \in Threads : IsIdle(t)) /\ Restore(id, OkEnv)
SpecRace == Init /\ [][NextRace]_vars

\* Two threads registering Modifications.
NextAdd ==
    \/ \E a \in PatchArgs : NewPatch(a)
    \/ \E a \in DetourArgs : NewDetour(a)
    \/ \E t \in Threads, key \in Keys, id \in ObjIds, g \in GroupIDs : AddModCheck(t, key, id, g)
    \/ \E t \in Threads : AddModInsert(t)
SpecAdd == Init /\ [][NextAdd]_vars

\* Threads calling the SymbolLoader.
NextSym ==
    \/ \E t \in Threads, op \in {"InitSymbols", "CleanupSymbols", "ForceCleanupSymbols"} :
          SymCall(t, op)
    \/ \E t \in Threads, ok \in BOOLEAN : SymRun(t, ok)
SpecSym == Init /\ [][NextSym]_vars

\* A caller using the Manager's overlap query.
NextQuery == Construct \/ RegisterDefault \/ Keyed \/ Query
SpecQuery == Init /\ [][NextQuery]_vars

TypeOK ==
    /\ mem \in [MemAddrs -> Nat]
    /\ prot \in ProtSet
    /\ Len(objs) <= MaxMods
    /\ Len(applied) = Len(objs)
    /\ \A k \in Keys : Mods[k] \in 0..Len(objs)

\* ================================================================== claims
IsPatchAt(id) == objs[id].Type = "Patch" /\ objs[id].TargetAddress # 0

\* the last call was a successful Restore() that directly followed a successful
\* Apply() on the same Patch (non-zero target)
RoundTrip ==
    /\ last.op = "Restore" /\ last.ret
    /\ last.apply # <<>> /\ last.apply[1]
    /\ IsPatchAt(last.obj)

\* C1 as stated: after Apply(); Restore() on a Patch with a non-zero target, both
\* succeeding, the target bytes equal their contents just before Apply() and
\* is_modified is false.
C1_RoundTripAnyPatch ==
    RoundTrip =>
        /\ TargetBytes(objs[last.obj], mem) = last.apply[3]
        /\ ~objs[last.obj].IsModified

\* C1 amended: the same, for a Patch that was not already modified when Apply()
\* was called.
C1_RoundTrip ==
    (RoundTrip /\ ~last.apply[2]) =>
        /\ TargetBytes(objs[last.obj], mem) = last.apply[3]
        /\ ~objs[last.obj].IsModified

\* a round trip of a fresh Patch whose Apply() changed the target bytes
C1_Witness ==
    /\ RoundTrip /\ ~last.apply[2]
    /\ last.pre = objs[last.obj].PatchBytes
    /\ last.pre # last.apply[3]

\* C3: in every reachable state, is_modified is true iff some Apply() has
\* returned true and no Restore() has returned true since.
C3_IsModifiedTracksSuccess ==
    \A id \in ObjIds : objs[id].IsModified = applied[id]

CallSucceeded == last.called # <<>> /\ last.called[1][2]

\* C8: ApplyMod / RestoreMod return true iff the key is registered and the call on
\* its Modification returned true; RestoreAndEraseMod returns true when the key
\* existed and its Restore() returned true.
C8_KeyedReturnValues ==
    /\ last.op \in {"ApplyMod", "RestoreMod"} =>
           (last.ret <=> (last.prev # 0 /\ CallSucceeded))
    /\ (last.op = "RestoreAndEraseMod" /\ last.prev # 0 /\ CallSucceeded) =>
           (last.ret /\ Mods[last.key] = 0)

\* C9: AddMod of an unmodified Modification under an unregistered key registers it,
\* inactive, without touching memory; ApplyMod on a registered inactive key whose
\* Apply() returns true makes it active; RestoreMod on a registered active key
\* whose Restore() returns true makes it inactive; ApplyMod / RestoreMod on an
\* unregistered key change neither the registry nor memory.
C9_KeyStateMachine ==
    [][ /\ (last'.op = "AddMod" /\ Mods[last'.key] = 0 /\ ~objs[last'.obj].IsModified) =>
               /\ Mods'[last'.key] = last'.obj
               /\ ~objs'[last'.obj].IsModified
               /\ mem' = mem
        /\ (last'.op = "ApplyMod" /\ Mods[last'.key] # 0 /\ ~objs[Mods[last'.key]].IsModified
                /\ last'.called # <<>> /\ last'.called[1][2]) =>
               /\ Mods' = Mods
               /\ objs'[Mods[last'.key]].IsModified
        /\ (last'.op = "RestoreMod" /\ Mods[last'.key] # 0 /\ objs[Mods[last'.key]].IsModified
                /\ last'.called # <<>> /\ last'.called[1][2]) =>
               /\ Mods' = Mods
               /\ ~objs'[Mods[last'.key]].IsModified
        /\ (last'.op \in {"ApplyMod", "RestoreMod"} /\ Mods[last'.key] = 0) =>
               /\ last'.called = <<>>
               /\ Mods' = Mods /\ objs' = objs /\ mem' = mem /\ prot' = prot ]_vars

\* RestoreMod just took a registered active key back to inactive, memory restored
C9_Witness ==
    /\ last.op = "RestoreMod" /\ last.was /\ CallSucceeded
    /\ Mods[last.key] = last.prev
    /\ ~objs[last.prev].IsModified
    /\ IsPatchAt(last.prev)
    /\ TargetBytes(objs[last.prev], mem) = objs[last.prev].OriginalBytes

\* the keys an erase operation selects
Erased(k, call) ==
    IF call.op = "EraseMod" THEN k = call.key
    ELSE Mods[k] # 0 /\ Selected(objs[Mods[k]], call.sel)

EraseOps == {"EraseMod", "EraseAllMods", "EraseByGroupID", "EraseByType"}

\* C10: EraseMod / EraseAllMods / EraseByGroupID / EraseByType remove the selected
\* entries and nothing else: no Restore() is called, memory, protection and every
\* object (is_modified included) are unchanged, and every other entry stays.
C10_EraseOnlyRemoves ==
    [][ last'.op \in EraseOps =>
            /\ last'.called = <<>>
            /\ mem' = mem /\ prot' = prot /\ objs' = objs
            /\ \A k \in Keys : Mods'[k] = IF Erased(k, last') THEN 0 ELSE Mods[k] ]_vars

\* EraseMod just removed an active Modification; it is still modified, its target
\* still patched, and another key is still registered
C10_Witness ==
    /\ last.op = "EraseMod" /\ last.prev # 0 /\ last.was
    /\ Mods[last.key] = 0
    /\ objs[last.prev].IsModified
    /\ IsPatchAt(last.prev)
    /\ TargetBytes(objs[last.prev], mem) = objs[last.prev].PatchBytes
    /\ \E k \in Keys : Mods[k] # 0

\* the half-open ranges [a1, a1 + n1) and [a2, a2 + n2) share an address
Intersect(a1, n1, a2, n2) ==
    \E x \in 0..(PtrMod - 1) : a1 <= x /\ x < a1 + n1 /\ a2 <= x /\ x < a2 + n2

\* the keys of the registered, modified Modifications whose range meets the query
Overlapping(address, length) ==
    {k \in Keys : /\ Mods[k] # 0
                  /\ objs[Mods[k]].IsModified
                  /\ Intersect(address, length,
                               objs[Mods[k]].TargetAddress, objs[Mods[k]].Size)}

SeqToSet(q) == {q[i] : i \in 1..Len(q)}

\* C5: for a query with length > 0, no wrap-around and an empty output list,
\* IsLocationModified lists exactly the keys of the registered, modified
\* Modifications whose half-open range meets [address, address + length), each
\* once, and returns true iff there is one.
C5_OverlapQuery ==
    (last.op = "IsLocationModified" /\ last.len > 0 /\ last.addr + last.len < PtrMod
         /\ last.keysIn = <<>>) =>
        /\ SeqToSet(last.keysOut) = Overlapping(last.addr, last.len)
        /\ Len(last.keysOut) = Cardinality(Overlapping(last.addr, last.len))
        /\ last.ret <=> (Overlapping(last.addr, last.len) # {})

\* a query that starts exactly where an active registered Modification ends did not
\* report it, while a registered inactive Modification is in the registry too
C5_Witness ==
    /\ last.op = "IsLocationModified" /\ last.len > 0 /\ last.keysIn = <<>>
    /\ \E k \in Keys : /\ Mods[k] # 0
                       /\ objs[Mods[k]].IsModified
                       /\ objs[Mods[k]].TargetAddress + objs[Mods[k]].Size = last.addr
                       /\ k \notin SeqToSet(last.keysOut)
    /\ \E k \in Keys : Mods[k] # 0 /\ ~objs[Mods[k]].IsModified

BulkCalls == {"ApplyAllMods", "RestoreAllMods", "ApplyByGroupID", "RestoreByGroupID",
              "ApplyByType", "RestoreByType"}

\* the registry entries a bulk operation selects
SelectedKeys(sel) == {k \in Keys : Mods[k] # 0 /\ Selected(objs[Mods[k]], sel)}

\* C6: a bulk operation calls Apply() (resp. Restore()) on every selected entry,
\* also on the entries after one whose call returned false.
C6_BatchVisitsEverySelected ==
    last.op \in BulkCalls =>
        \A k \in SelectedKeys(last.sel) :
            \E i \in 1..Len(last.called) : last.called[i][1] = Mods[k]

\* C7: a bulk operation returns true iff the call returned true for every selected
\* entry (true when none is selected).
C7_BatchReturnsConjunction ==
    last.op \in BulkCalls =>
        (last.ret <=>
            /\ Len(last.called) = Cardinality(SelectedKeys(last.sel))
            /\ \A i \in 1..Len(last.called) : last.called[i][2])

\* a bulk operation returned false after its first call succeeded and its second failed
C7_Witness ==
    /\ last.op \in BulkCalls /\ ~last.ret
    /\ Len(last.called) = 2
    /\ last.called[1][2] /\ ~last.called[2][2]

\* the strategy the precedence export > pattern scan > module base + offset >
\* module name + offset selects for an entry
Strategy(e) ==
    IF e.IsSymbolExport THEN "export"
    ELSE IF e.HasPattern THEN "scan"
    ELSE IF e.ModuleAddress > 0 /\ e.KnownOffset > 0 THEN "base"
    ELSE IF e.ModuleName # "" /\ e.KnownOffset > 0 THEN "module"
    ELSE "none"

\* the selected strategy cannot produce an address in the module as it is
StrategyFails(e, img) ==
    LET loaded == e.ModuleName = "m" /\ img.base # 0 IN
    CASE Strategy(e) = "export" -> ~loaded \/ img.exp = 0
      [] Strategy(e) = "scan" -> ~loaded \/ img.sig = 0
      [] Strategy(e) = "base" -> FALSE
      [] Strategy(e) = "module" -> ~loaded
      [] OTHER -> TRUE

C17_CachedResolvesByArithmetic ==
    (dlast.op = "Update" /\ dlast.pre.ModuleAddress > 0 /\ dlast.pre.KnownOffset > 0) =>
        /\ dlast.ret = Some(dlast.pre.ModuleAddress + dlast.pre.KnownOffset)
        /\ \A i \in 1..Len(dlast.tried) : dlast.tried[i] \notin {"export", "scan"}

\* C18: Verify() leaves the entry unchanged and, for an entry with a cached target
\* address whose re-derivation (by Update()'s precedence) yields an address,
\* returns true iff that address equals the cached one.
C18_VerifyComparesRederived ==
    dlast.op = "Verify" =>
        /\ ent = dlast.pre
        /\ LET r == Update(dlast.pre, dlast.img) IN
           (dlast.pre.TargetAddress # 0 /\ r.ret # Nullopt) =>
               (dlast.ok <=> (r.ret[1] = dlast.pre.TargetAddress))

\* the keys, in visiting order, of the entries whose Verify() result was false
FailedKeys(verified) ==
    LET failed(v) == ~v[2]
        f == SelectSeq(verified, failed)
    IN  [i \in 1..Len(f) |-> f[i][1]]

C20_AddStoresTheEntry ==
    [][dlast'.op = "Add" =>
          /\ [db'.ents[dlast'.key] EXCEPT !.Id = 0] = dlast'.arg
          /\ \A k \in DbKeys \ {dlast'.key} : db'.ents[k] = db.ents[k]]_vars

\* Add replaced an entry that had a cached address by a different entry
C20_Witness ==
    /\ dlast.op = "Add"
    /\ dlast.pre.TargetAddress # 0
    /\ dlast.pre.HasPattern # dlast.arg.HasPattern
    /\ [db.ents[dlast.key] EXCEPT !.Id = 0] = dlast.arg
    /\ \E k \in DbKeys \ {dlast.key} : Stored(k)

\* C15: a pointer returned by Find is never used once a Remove, a Clear or an Add of
\* the same key has destroyed the entry it points to.
C15_FindPointerNeverDangles ==
    dlast.op = "Deref" => ~dlast.dangling

\* C11: when RestoreAndEraseMod has restored a Modification and removed it from the
\* registry, the Modification it removed is not active.
C11_RestoreAndEraseIsAtomic ==
    (/\ last.op = "RestoreAndEraseMod"
     /\ last.prev # 0
     /\ last.called = <<<<last.prev, TRUE>>>>) => ~objs[last.prev].IsModified

\* thread t makes its Apply()/Restore() call in this step
CallsNow(t) == thr[t].pc \in {"call", "hold"} /\ thr'[t].pc \notin {"call", "hold"}

\* thread t, or a plain EraseMod, removes a key in this step
ErasesNow == last'.op = "EraseMod" \/ \E t \in Threads : thr[t].pc = "erase" /\ thr'[t].pc = "idle"

C13_NoSlowWorkUnderLock ==
    /\ clog.kind = "call" => ~clog.shared /\ ~clog.excl
    /\ (\E i \in 1..Len(dlast.tried) : dlast.tried[i] \in {"export", "scan"}) => ~dlast.locked

\* C14: every read of the Manager's collection is made by a thread holding the
\* registry lock, and is made on a collection no other thread has changed since
\* the reading loop began.
C14_ReadsHoldTheLock ==
    clog.kind = "read" => (clog.shared \/ clog.excl) /\ ~clog.raced

\* a token that stands for a wildcard, and the digits of any other token
IsWild(tok) == tok = <<"?">> \/ tok = <<"?", "?">>

HexBody(tok) ==
    IF Len(tok) >= 2 /\ tok[1] = "0" /\ tok[2] \in {"x", "X"} THEN SubSeq(tok, 3, Len(tok)) ELSE tok

\* one or two hexadecimal digits: the value of a byte
WellFormed(tok) ==
    /\ Len(HexBody(tok)) \in {1, 2}
    /\ \A i \in 1..Len(HexBody(tok)) : IsHex(HexBody(tok)[i])

\* no digit at all, or a character that is no hexadecimal digit
Malformed(tok) ==
    /\ ~IsWild(tok)
    /\ \/ HexBody(tok) = <<>>
       \/ \E i \in 1..Len(HexBody(tok)) : ~IsHex(HexBody(tok)[i])

ParseReturned == slast.done /\ slast.op \notin {"Init", "FindSignature"}

\* C21: on a readable region FindSignature returns the match of index skipCount, in
\* ascending order, among the offsets where the pattern fits in the region and
\* every non-wildcard byte equals the memory byte, and not-found when there are at
\* most skipCount such offsets.
MatchOffsets(region, pattern) ==
    {i \in 0..Len(region) :
        /\ i + Len(pattern) <= Len(region)
        /\ \A j \in 1..Len(pattern) : pattern[j] = Nullopt \/ region[i + j] = pattern[j][1]}

C21_ReturnsTheNthMatch ==
    (slast.done /\ slast.op = "FindSignature" /\ slast.readable >= Len(slast.region)) =>
        LET ms == MatchOffsets(slast.region, slast.pattern) IN
        IF Cardinality(ms) > slast.skipCount
        THEN /\ slast.ret # Nullopt
             /\ slast.ret[1] \in ms
             /\ Cardinality({m \in ms : m < slast.ret[1]}) = slast.skipCount
        ELSE slast.ret = Nullopt

\* C22: when a read faults during the scan FindSignature returns not-found and the
\* fault does not leave the function.
C22_FaultYieldsNotFound ==
    (slast.done /\ slast.op = "FindSignature" /\ slast.faulted) =>
        slast.ret = Nullopt /\ ~slast.escaped

\* a scan that had passed several start offsets faulted inside the region
C22_Witness ==
    /\ slast.done /\ slast.op = "FindSignature"
    /\ slast.faulted
    /\ slast.readable < Len(slast.region)
    /\ Len(slast.pattern) <= Len(slast.region)
    /\ Len(slast.examined) >= 2
    /\ slast.ret = Nullopt

\* C23: a string with a malformed token makes ParsePattern, and the callers that hand
\* it to ParsePattern, report failure by an empty result; no exception leaves them.
C23_MalformedTokenIsReported ==
    (ParseReturned /\ \E i \in 1..Len(slast.toks) : Malformed(slast.toks[i])) =>
        ~slast.threw /\ slast.pattern = <<>>

\* C24: for a string of wildcard and well-formed tokens ParsePattern yields one
\* element per token, in order: a wildcard for ? and ??, else the byte of the
\* token's hexadecimal value.
C24_ParsesTokenByToken ==
    (/\ ParseReturned
     /\ \A i \in 1..Len(slast.toks) : IsWild(slast.toks[i]) \/ WellFormed(slast.toks[i])) =>
        /\ ~slast.threw
        /\ Len(slast.pattern) = Len(slast.toks)
        /\ \A i \in 1..Len(slast.toks) :
              slast.pattern[i] = IF IsWild(slast.toks[i]) THEN Nullopt
                                 ELSE Some(HexNumber(HexBody(slast.toks[i])))

\* ParsePattern("48,8B,?,89") returned [0x48, 0x8B, wildcard, 0x89]
C24_Witness ==
    /\ slast.done /\ slast.op = "ParsePattern"
    /\ slast.text = <<"4", "8", ",", "8", "B", ",", "?", ",", "8", "9">>
    /\ slast.pattern = <<Some(72), Some(139), Nullopt, Some(137)>>

C25_RefusedApplyChangesNothing ==
    [][ \A id \in ObjIds : \A e \in Env :
          ( /\ objs[id].Type = "Patch" /\ ~objs[id].IsModified
            /\ (objs[id].TargetAddress = 0 \/ ~e.vp)
            /\ last'.op = "Apply" /\ last'.obj = id
            /\ Apply(id, e) )
          => (~last'.ret /\ mem' = mem /\ prot' = prot /\ objs' = objs) ]_vars

\* Apply() has just returned false on an unmodified Patch with a non-zero target
\* whose page stayed read-only: the protection change was refused
C25_Witness ==
    /\ last.op = "Apply" /\ ~last.ret /\ ~last.was
    /\ IsPatchAt(last.obj)
    /\ prot = "RX"
    /\ last.pre # objs[last.obj].OriginalBytes

\* C26: when the OS refuses the protection change in Patch::Restore() on a modified
\* Patch, Restore() fails, writes nothing back and is_modified stays true.
C26_RefusedRestoreWritesNothing ==
    [][ \A id \in ObjIds : \A e \in Env :
          ( /\ objs[id].Type = "Patch" /\ objs[id].IsModified
            /\ ~e.vp
            /\ last'.op = "Restore" /\ last'.obj = id
            /\ Restore(id, e) )
          => (~last'.ret /\ mem' = mem /\ objs'[id].IsModified) ]_vars

\* C29: in every reachable state each Modification stored in the registry has a
\* Key field equal to the registry key it is stored under, also after the same
\* object was passed to AddMod again under another key.
C29_KeyFieldIsTheRegistryKey ==
    \A k \in Keys : ModExists(k) => objs[Mods[k]].Key = k

\* UpdateAll's loop has just handled the entry stored under dlast.key
UpdateAllStepped ==
    /\ dlast.op = "LoopStep"
    /\ \E t \in Threads : thr[t].pc = "dbloop" /\ thr[t].op = "UpdateAll"

\* the entry as SetModuleBase(load base) followed by Update() leaves it
Rebased(e, img) == Update(SetModuleBase(e, GetModuleHandleW(img, e.ModuleName)), img)

C27_TransactionClosedBeforeReturn ==
    /\ txn.pending => txn.pc \in {"try", "abort"}
    /\ (txn.pc = "return" /\ txn.opened) =>
          /\ txn.closedBy = (IF txn.ret THEN "commit" ELSE "abort")
          /\ ~txn.ret => objs[txn.id].IsModified = txn.was

\* Restore() on a hooked Detour is about to return false after its commit failed:
\* the transaction was aborted and the Detour is still modified
C27_Witness ==
    /\ txn.pc = "return" /\ txn.opened /\ ~txn.isApply
    /\ ~txn.env.commit
    /\ ~txn.ret /\ txn.closedBy = "abort" /\ ~txn.pending
    /\ objs[txn.id].IsModified

\* C38: IsLocationModified(address, 0) with an empty output list reports no
\* Modification and returns false, whatever the address.
C38_EmptyRangeOverlapsNothing ==
    (last.op = "IsLocationModified" /\ last.len = 0 /\ last.keysIn = <<>>) =>
        last.keysOut = <<>> /\ ~last.ret

\* C39: for a query with length > 0 and no wrap-around, IsLocationModified returns
\* true iff an active registered Modification overlaps the range, whether the
\* output list it is given is empty or already holds keys.
C39_ResultIgnoresTheOutputList ==
    (last.op = "IsLocationModified" /\ last.len > 0 /\ last.addr + last.len < PtrMod) =>
        (last.ret <=> (Overlapping(last.addr, last.len) # {}))

SelectiveCalls == {"ApplyByGroupID", "RestoreByGroupID", "ApplyByType", "RestoreByType"}

\* the Modification is not one the by-group or by-type call is for
Outside(o, sel) ==
    \/ sel.by = "group" /\ o.GroupID # sel.group
    \/ sel.by = "type" /\ o.Type # sel.type

\* the addresses of a Modification's target range
Range(o) == IF o.TargetAddress = 0 THEN {} ELSE o.TargetAddress..(o.TargetAddress + o.Size - 1)

\* C40 as stated: a by-group or by-type bulk call makes no Apply()/Restore() call on
\* a Modification of another group (resp. kind), changes neither its target bytes
\* nor its is_modified, and leaves the registry's key set unchanged.
C40_OthersUntouched ==
    [][ last'.op \in SelectiveCalls =>
          /\ Mods' = Mods
          /\ \A id \in ObjIds : Outside(objs[id], last'.sel) =>
                /\ \A i \in 1..Len(last'.called) : last'.called[i][1] # id
                /\ objs'[id].IsModified = objs[id].IsModified
                /\ TargetBytes(objs[id], mem') = TargetBytes(objs[id], mem) ]_vars

\* C40 amended: such a call makes no Apply()/Restore() call on a Modification of
\* another group (resp. kind) and changes none of its fields; it changes no memory
\* outside the target ranges of the Modifications it is for; it leaves the registry
\* unchanged.
C40_OthersUntouchedOutsideOverlap ==
    [][ last'.op \in SelectiveCalls =>
          /\ Mods' = Mods
          /\ \A id \in ObjIds : Outside(objs[id], last'.sel) =>
                /\ \A i \in 1..Len(last'.called) : last'.called[i][1] # id
                /\ objs'[id] = objs[id]
          /\ \A a \in MemAddrs :
                mem'[a] # mem[a] =>
                    \E id \in ObjIds : ~Outside(objs[id], last'.sel) /\ a \in Range(objs[id]) ]_vars

\* a by-group call has applied a Modification while an applied Modification of
\* another group is registered too
C40_Witness ==
    /\ last.op = "ApplyByGroupID" /\ last.ret /\ Len(last.called) = 1
    /\ \E k \in Keys : /\ Mods[k] # 0
                       /\ objs[Mods[k]].GroupID # last.sel.group
                       /\ objs[Mods[k]].IsModified
    /\ objs[last.called[1][1]].IsModified

TeardownCalls == {"RestoreAndEraseAllMods", "RestoreAndEraseByGroupID", "RestoreAndEraseByType"}

\* the entry is one the restore-and-erase call is for
Within(o, sel) ==
    \/ sel.by = "all"
    \/ sel.by = "group" /\ o.GroupID = sel.group
    \/ sel.by = "type" /\ o.Type = sel.type

\* C35: RestoreAndEraseAllMods / ByGroupID / ByType remove every selected entry
\* from the registry whether or not its Restore() succeeded, and a Modification
\* whose Restore() failed (and did not succeed under another key in the same call)
\* is still is_modified afterwards.
C35_TeardownErasesAndFailedStayModified ==
    [][ last'.op \in TeardownCalls =>
          \A k \in Keys : (Mods[k] # 0 /\ Within(objs[Mods[k]], last'.sel)) =>
              /\ Mods'[k] = 0
              /\ ( /\ \E i \in 1..Len(last'.called) : last'.called[i] = <<Mods[k], FALSE>>
                    /\ \A j \in 1..Len(last'.called) : last'.called[j] # <<Mods[k], TRUE>> )
                     => objs'[Mods[k]].IsModified ]_vars

\* C34: when ApplyAllMods() and then RestoreAllMods() are called on a registry of
\* inactive Patches (overlapping target ranges included) and both return true, the
\* memory is as it was before ApplyAllMods() and every registered entry is inactive.
C34_BulkRoundTrip ==
    (/\ last.op = "RestoreAllMods" /\ last.ret
     /\ last.apply # <<>> /\ last.apply[1] /\ ~last.apply[2]
     /\ \A k \in Keys : Mods[k] # 0 => objs[Mods[k]].Type = "Patch") =>
        /\ MemBytes(mem) = last.apply[3]
        /\ ~AnyActive

\* C36: when Patch::Apply() or Patch::Restore() returns, the page protection of the
\* target is what it was before the call, also when the memory copy faulted.
C36_ProtectionPutBack ==
    [][ (last'.op \in {"Apply", "Restore"} /\ objs[last'.obj].Type = "Patch") =>
          prot' = prot ]_vars

\* C37: with a pattern longer than the region (an empty region included, the whole
\* region readable) FindSignature returns not-found and reads nothing beyond the
\* region: it matches nothing there and no read there faults.
C37_LongPatternIsNotFound ==
    (/\ slast.done /\ slast.op = "FindSignature"
     /\ Len(slast.pattern) > Len(slast.region)
     /\ slast.readable >= Len(slast.region)) =>
        slast.ret = Nullopt /\ ~slast.faulted

\* the contents of a Modification's target range before anything was written
PrePatchBytes(o) == [i \in 1..o.Size |-> 16 * (o.TargetAddress + i - 1)]

\* C33: after any ApplyMod calls on one Patch, made by several threads at once or
\* not, the state is that of a serial order of the calls: while the Patch is
\* modified its original_bytes are the pre-patch bytes of the target, and once
\* Restore() has succeeded the target holds them again.
C33_ConcurrentApplyIsSerial ==
    (\A t \in Threads : IsIdle(t)) =>
        \A id \in ObjIds :
            IF objs[id].IsModified
            THEN objs[id].OriginalBytes = PrePatchBytes(objs[id])
            ELSE TargetBytes(objs[id], mem) = PrePatchBytes(objs[id])

\* C32: when AddMod returns true the registry maps the key to the Modification that
\* was passed in, whatever other AddMod calls ran at the same time.
C32_AddModTrueMeansRegistered ==
    (last.op = "AddMod" /\ last.ret) => Mods[last.key] = last.obj

\* C31: under any order of InitSymbols, CleanupSymbols and ForceCleanupSymbols calls
\* the reference count is never negative and the symbols are loaded exactly when
\* it is positive.
C31_LoadedIffCounted ==
    /\ sym.count >= 0
    /\ sym.loaded <=> sym.count > 0

====
